---- MODULE Spec2Model ----
(***************************************************************************)
(* Model of the medical image codec: Huffman entropy coder                 *)
(* (src/src/huffman_coding.py), zig-zag scanner and quantizer              *)
(* (src/src/dct_transform.py), bitstream framer and validator              *)
(* (src/src/bitstream.py), padding (src/src/utils.py), the encoder and     *)
(* decoder programs (src/src/encode.py, src/src/decode.py) and the size of *)
(* the Huffman table section they exchange.                                *)
(*                                                                         *)
(* Python values are modelled as follows.  A str of '0'/'1' characters is  *)
(* a sequence over {0,1}; bytes is a sequence over 0..255; a dict is the   *)
(* sequence of its items in insertion order; HuffmanNode objects live in   *)
(* an arena (a sequence of records) and a reference is an index into it,   *)
(* with 0 for None.  Python positions are 0-based, sequences 1-based.      *)
(***************************************************************************)
EXTENDS Integers, Sequences, FiniteSets, TLC

VARIABLES
  \* Huffman coder
  hpc, stream, codes, encoded_bytes, huffman_table, num_bits,
  restored, bytes_read, num_coeffs, coeffs, herr,
  \* zig-zag scanner
  zpc, block_size, block, flattened, unflat, zerr,
  \* bitstream framer / decoder front end
  fpc, fields, frame, data, params, offset, ferr,
  \* quantizer
  qpc, quality_arg, bit_depth_arg, block_size_arg, quant_matrix,
  \* padding
  ppc, image, pad_size, padded_image, original_shape, unpadded,
  \* encoder and decoder programs
  cpc, pixels, metadata, quality_opt, block_size_opt, int16_cast, bitstream,
  bitstream_data, dec_params, coeffs_flat, dct_blocks, reconstructed,
  output_file, cerr,
  \* size of the Huffman table section
  tpc, code_lengths, table_len, terr

hvars == <<hpc, stream, codes, encoded_bytes, huffman_table, num_bits,
           restored, bytes_read, num_coeffs, coeffs, herr>>
zvars == <<zpc, block_size, block, flattened, unflat, zerr>>
fvars == <<fpc, fields, frame, data, params, offset, ferr>>
qvars == <<qpc, quality_arg, bit_depth_arg, block_size_arg, quant_matrix>>
\* the components added to the coder, the scanner and the framer
pvars == <<ppc, image, pad_size, padded_image, original_shape, unpadded>>
cvars == <<cpc, pixels, metadata, quality_opt, block_size_opt, int16_cast,
           bitstream, bitstream_data, dec_params, coeffs_flat, dct_blocks,
           reconstructed, output_file, cerr>>
tvars == <<tpc, code_lengths, table_len, terr>>
xvars == <<qvars, pvars, cvars, tvars>>
vars == <<hvars, zvars, fvars, xvars>>

----------------------------------------------------------------------------
(* Bounds of the model *)

\* longest symbol stream built one symbol at a time
MaxLen == 5
\* largest alphabet of the skewed (Fibonacci-frequency) streams
MaxSkew == 10
\* largest zig-zag block size
MaxBlock == 16

\* symbols a stream is drawn from: signed 16-bit values, extremes included
Symbols == {-32768, -1, 0, 32767}

----------------------------------------------------------------------------
(* Generic Python helpers *)

Min(a, b) == IF a < b THEN a ELSE b
Max(a, b) == IF a > b THEN a ELSE b

\* s[a:b] for 0 <= a, on any sequence (slices never raise, they clip)
Slice(s, a, b) == SubSeq(s, a + 1, Min(b, Len(s)))

RECURSIVE Pow(_, _)
Pow(b, e) == IF e = 0 THEN 1 ELSE b * Pow(b, e - 1)

\* int(bits, 2)
RECURSIVE BitsToInt(_)
BitsToInt(bits) ==
  IF bits = <<>> THEN 0
  ELSE 2 * BitsToInt(SubSeq(bits, 1, Len(bits) - 1)) + bits[Len(bits)]

\* n.to_bytes(k, byteorder='big') for 0 <= n < 256^k
RECURSIVE ToBytes(_, _)
ToBytes(n, k) ==
  IF k = 0 THEN <<>> ELSE Append(ToBytes(n \div 256, k - 1), n % 256)

\* int.from_bytes(b, byteorder='big')
RECURSIVE FromBytes(_)
FromBytes(b) ==
  IF b = <<>> THEN 0
  ELSE 256 * FromBytes(SubSeq(b, 1, Len(b) - 1)) + b[Len(b)]

\* int(symbol).to_bytes(2, byteorder='big', signed=True): two's complement
SignedToBytes(symbol) == ToBytes((symbol + 65536) % 65536, 2)

\* int.from_bytes(b, byteorder='big', signed=True) on up to two bytes
SignedFromBytes(b) ==
  LET u == FromBytes(b)
      half == Pow(256, Len(b)) \div 2
  IN IF b # <<>> /\ u >= half THEN u - 2 * half ELSE u

\* bin(n)[2:]: binary digits of n >= 0 without leading zeros, "0" for 0
RECURSIVE Bin(_)
Bin(n) == IF n < 2 THEN <<n>> ELSE Append(Bin(n \div 2), n % 2)

\* s.zfill(width): pad on the left with '0', never truncates
Zfill(s, width) ==
  IF Len(s) >= width THEN s ELSE [i \in 1..(width - Len(s)) |-> 0] \o s

\* format(byte, '08b')
Format08b(byte) == Zfill(Bin(byte), 8)

----------------------------------------------------------------------------
(* dict as an insertion-ordered sequence of items [key, val] *)

HasKey(d, k) == \E i \in 1..Len(d) : d[i].key = k
Get(d, k) == d[CHOOSE i \in 1..Len(d) : d[i].key = k].val
\* d[k] = v
Put(d, k, v) ==
  IF HasKey(d, k)
  THEN [d EXCEPT ![CHOOSE i \in 1..Len(d) : d[i].key = k] = [key |-> k, val |-> v]]
  ELSE Append(d, [key |-> k, val |-> v])
Keys(d) == {d[i].key : i \in 1..Len(d)}

\* Counter: count the elements s[lo..hi] into c, left to right.  (Loops over
\* long sequences are split in halves, which keeps the evaluation shallow
\* and the order of the iterations unchanged.)
RECURSIVE CountRange(_, _, _, _)
CountRange(s, lo, hi, c) ==
  IF lo > hi THEN c
  ELSE IF lo = hi
       THEN Put(c, s[lo], IF HasKey(c, s[lo]) THEN Get(c, s[lo]) + 1 ELSE 1)
       ELSE LET mid == (lo + hi) \div 2
                first == CountRange(s, lo, mid, c)
            IN IF Len(first) > 0 THEN CountRange(s, mid + 1, hi, first) ELSE first

\* Counter(all_coeffs): counts in order of first occurrence
Counter(s) == CountRange(s, 1, Len(s), <<>>)

----------------------------------------------------------------------------
(* HuffmanNode and the heapq priority queue *)

\* symbol=None
None == 65536

HuffmanNode(symbol, freq, left, right) ==
  [symbol |-> symbol, freq |-> freq, left |-> left, right |-> right]

\* a comparison that orders the queue by decreasing frequency
LtGreater(nodes, a, b) == nodes[a].freq > nodes[b].freq

\* HuffmanNode.__lt__ on two references into the arena
Lt(nodes, a, b) == nodes[a].freq < nodes[b].freq

At(heap, pos) == heap[pos + 1]
SetAt(heap, pos, v) == [heap EXCEPT ![pos + 1] = v]

\* heapq._siftdown
RECURSIVE SiftDown(_, _, _, _, _)
SiftDown(nodes, heap, startpos, pos, newitem) ==
  IF pos > startpos
  THEN LET parentpos == (pos - 1) \div 2
           parent == At(heap, parentpos)
       IN IF Lt(nodes, newitem, parent)
          THEN SiftDown(nodes, SetAt(heap, pos, parent), startpos, parentpos, newitem)
          ELSE SetAt(heap, pos, newitem)
  ELSE SetAt(heap, pos, newitem)

\* loop of heapq._siftup: bubble the smaller child up until a leaf is hit
RECURSIVE SiftUpLoop(_, _, _, _)
SiftUpLoop(nodes, heap, pos, childpos) ==
  IF childpos < Len(heap)
  THEN LET rightpos == childpos + 1
           c == IF rightpos < Len(heap)
                   /\ ~Lt(nodes, At(heap, childpos), At(heap, rightpos))
                THEN rightpos ELSE childpos
       IN SiftUpLoop(nodes, SetAt(heap, pos, At(heap, c)), c, 2 * c + 1)
  ELSE <<heap, pos>>

\* heapq._siftup
SiftUp(nodes, heap, pos) ==
  LET newitem == At(heap, pos)
      r == SiftUpLoop(nodes, heap, pos, 2 * pos + 1)
  IN SiftDown(nodes, r[1], pos, r[2], newitem)

\* heapq.heapify: for i in reversed(range(n // 2)): _siftup(x, i)
RECURSIVE HeapifyFrom(_, _, _)
HeapifyFrom(nodes, heap, i) ==
  IF i < 0 THEN heap ELSE HeapifyFrom(nodes, SiftUp(nodes, heap, i), i - 1)
Heapify(nodes, heap) == HeapifyFrom(nodes, heap, (Len(heap) \div 2) - 1)

\* heapq.heappop: <<popped item, remaining heap>>
HeapPop(nodes, heap) ==
  LET lastelt == heap[Len(heap)]
      rest == SubSeq(heap, 1, Len(heap) - 1)
  IN IF rest # <<>>
     THEN <<rest[1], SiftUp(nodes, SetAt(rest, 0, lastelt), 0)>>
     ELSE <<lastelt, rest>>

\* heapq.heappush
HeapPush(nodes, heap, item) ==
  SiftDown(nodes, Append(heap, item), 0, Len(heap), item)

----------------------------------------------------------------------------
(* Code construction *)

\* while len(heap) > 1: pop two, push their parent; return heap[0]
RECURSIVE BuildLoop(_, _)
BuildLoop(nodes, heap) ==
  IF Len(heap) > 1
  THEN LET p1 == HeapPop(nodes, heap)
           p2 == HeapPop(nodes, p1[2])
           parent == HuffmanNode(None, nodes[p1[1]].freq + nodes[p2[1]].freq,
                                 p1[1], p2[1])
           nodes2 == Append(nodes, parent)
       IN BuildLoop(nodes2, HeapPush(nodes2, p2[2], Len(nodes2)))
  ELSE [nodes |-> nodes, root |-> heap[1]]

\* build_huffman_tree: the arena and the root reference (0 for None)
build_huffman_tree(symbols_freq) ==
  IF symbols_freq = <<>>
  THEN [nodes |-> <<>>, root |-> 0]
  ELSE LET leaves == [i \in 1..Len(symbols_freq) |->
                        HuffmanNode(symbols_freq[i].key, symbols_freq[i].val, 0, 0)]
           heap == [i \in 1..Len(symbols_freq) |-> i]
       IN BuildLoop(leaves, Heapify(leaves, heap))

\* traverse that labels the right edge like the left one
RECURSIVE TraverseSameBit(_, _, _)
TraverseSameBit(nodes, node, code) ==
  IF nodes[node].symbol # None
  THEN <<[key |-> nodes[node].symbol, val |-> IF code # <<>> THEN code ELSE <<0>>]>>
  ELSE (IF nodes[node].left # 0
        THEN TraverseSameBit(nodes, nodes[node].left, Append(code, 0)) ELSE <<>>)
       \o
       (IF nodes[node].right # 0
        THEN TraverseSameBit(nodes, nodes[node].right, Append(code, 0)) ELSE <<>>)

\* traverse without the fallback for the root being a leaf
RECURSIVE TraverseNoFallback(_, _, _)
TraverseNoFallback(nodes, node, code) ==
  IF nodes[node].symbol # None
  THEN <<[key |-> nodes[node].symbol, val |-> code]>>
  ELSE (IF nodes[node].left # 0
        THEN TraverseNoFallback(nodes, nodes[node].left, Append(code, 0)) ELSE <<>>)
       \o
       (IF nodes[node].right # 0
        THEN TraverseNoFallback(nodes, nodes[node].right, Append(code, 1)) ELSE <<>>)

\* generate_huffman_codes.traverse: the items added to codes, in order
RECURSIVE Traverse(_, _, _)
Traverse(nodes, node, code) ==
  IF nodes[node].symbol # None
  THEN <<[key |-> nodes[node].symbol, val |-> IF code # <<>> THEN code ELSE <<0>>]>>
  ELSE (IF nodes[node].left # 0
        THEN Traverse(nodes, nodes[node].left, Append(code, 0)) ELSE <<>>)
       \o
       (IF nodes[node].right # 0
        THEN Traverse(nodes, nodes[node].right, Append(code, 1)) ELSE <<>>)

generate_huffman_codes(tree) ==
  IF tree.root = 0 THEN <<>> ELSE Traverse(tree.nodes, tree.root, <<>>)

RECURSIVE JoinCodes(_, _, _, _)
JoinCodes(syms, cds, lo, hi) ==
  IF lo > hi THEN <<>>
  ELSE IF lo = hi THEN Get(cds, syms[lo])
       ELSE LET mid == (lo + hi) \div 2
            IN JoinCodes(syms, cds, lo, mid) \o JoinCodes(syms, cds, mid + 1, hi)

\* encode_huffman: ''.join(codes[symbol] for symbol in data)
encode_huffman(syms, cds) == JoinCodes(syms, cds, 1, Len(syms))

----------------------------------------------------------------------------
(* Table serialization *)

\* the bytes of one entry: symbol, code_length, code
SerializeEntry(item) ==
  SignedToBytes(item.key) \o <<Len(item.val)>>
    \o ToBytes(BitsToInt(item.val), (Len(item.val) + 7) \div 8)

\* for symbol, code in codes.items()
RECURSIVE SerializeEntries(_)
SerializeEntries(cds) ==
  IF cds = <<>> THEN <<>>
  ELSE SerializeEntries(SubSeq(cds, 1, Len(cds) - 1)) \o SerializeEntry(cds[Len(cds)])

\* the exception serialize_huffman_table raises: to_bytes(2) when the count
\* does not fit, bytearray.append when a length does not fit, int('', 2) on
\* an empty code
SerializeError(cds) ==
  IF Len(cds) > 65535 THEN "OverflowError"
  ELSE IF \E i \in 1..Len(cds) : Len(cds[i].val) > 255 \/ cds[i].val = <<>>
       THEN "ValueError"
       ELSE ""

serialize_huffman_table(cds) == ToBytes(Len(cds), 2) \o SerializeEntries(cds)

\* deserialize_huffman_table that drops the zfill
RECURSIVE DeserializeLoopNoZfill(_, _, _, _)
DeserializeLoopNoZfill(bs, n, off, cds) ==
  IF n = 0 THEN [codes |-> cds, offset |-> off, err |-> ""]
  ELSE LET symbol == SignedFromBytes(Slice(bs, off, off + 2))
           off1 == off + 2
       IN IF off1 >= Len(bs)
          THEN [codes |-> cds, offset |-> off1, err |-> "IndexError"]
          ELSE LET code_length == bs[off1 + 1]
                   off2 == off1 + 1
                   nb == (code_length + 7) \div 8
                   code_int == FromBytes(Slice(bs, off2, off2 + nb))
                   code == Bin(code_int)
               IN DeserializeLoopNoZfill(bs, n - 1, off2 + nb, Put(cds, symbol, code))

\* loop of deserialize_huffman_table over the num_symbols entries
RECURSIVE DeserializeLoop(_, _, _, _)
DeserializeLoop(bs, n, off, cds) ==
  IF n = 0 THEN [codes |-> cds, offset |-> off, err |-> ""]
  ELSE LET symbol == SignedFromBytes(Slice(bs, off, off + 2))
           off1 == off + 2
       IN IF off1 >= Len(bs)
          THEN [codes |-> cds, offset |-> off1, err |-> "IndexError"]
          ELSE LET code_length == bs[off1 + 1]
                   off2 == off1 + 1
                   nb == (code_length + 7) \div 8
                   code_int == FromBytes(Slice(bs, off2, off2 + nb))
                   code == Zfill(Bin(code_int), code_length)
               IN DeserializeLoop(bs, n - 1, off2 + nb, Put(cds, symbol, code))

deserialize_huffman_table(bs) ==
  DeserializeLoop(bs, FromBytes(Slice(bs, 0, 2)), 2, <<>>)

----------------------------------------------------------------------------
(* Bit packing *)

\* a padding of 8 - len % 8 bits: a whole byte when the length is a multiple
\* of 8
bitstring_to_bytesFullPad(bitstring) ==
  LET padding == 8 - (Len(bitstring) % 8)
      padded == bitstring \o [i \in 1..padding |-> 0]
  IN <<[k \in 1..(Len(padded) \div 8) |-> BitsToInt(Slice(padded, 8 * (k - 1), 8 * k))],
       padding>>

\* bitstring_to_bytes: <<bytes, padding>>; byte k is int(bitstring[8k:8k+8], 2)
bitstring_to_bytes(bitstring) ==
  LET padding == (8 - (Len(bitstring) % 8)) % 8
      padded == bitstring \o [i \in 1..padding |-> 0]
  IN <<[k \in 1..(Len(padded) \div 8) |-> BitsToInt(Slice(padded, 8 * (k - 1), 8 * k))],
       padding>>

\* ''.join(format(byte, '08b') for byte in data)
RECURSIVE JoinFormat(_, _, _)
JoinFormat(bs, lo, hi) ==
  IF lo > hi THEN <<>>
  ELSE IF lo = hi THEN Format08b(bs[lo])
       ELSE LET mid == (lo + hi) \div 2
            IN JoinFormat(bs, lo, mid) \o JoinFormat(bs, mid + 1, hi)

\* the bits of every byte, the padding bits of the last one included
bytes_to_bitstringNoCut(bs, nbits) == JoinFormat(bs, 1, Len(bs))

\* bytes_to_bitstring
bytes_to_bitstring(bs, nbits) == Slice(JoinFormat(bs, 1, Len(bs)), 0, nbits)

----------------------------------------------------------------------------
(* Stream encoding and decoding *)

\* encode_coefficients on the flattened coefficient list
encode_coefficients(all_coeffs) ==
  LET freq == Counter(all_coeffs)
      tree == build_huffman_tree(freq)
      cds == generate_huffman_codes(tree)
      bitstring == encode_huffman(all_coeffs, cds)
  IN [codes |-> cds,
      encoded_bytes |-> bitstring_to_bytes(bitstring)[1],
      huffman_table |-> serialize_huffman_table(cds),
      num_bits |-> Len(bitstring),
      err |-> SerializeError(cds)]

\* for bit in code[:-1]: descend, creating the missing inner nodes
RECURSIVE WalkCreate(_, _, _)
WalkCreate(nodes, node, bits) ==
  IF bits = <<>> THEN [nodes |-> nodes, node |-> node]
  ELSE IF bits[1] = 0
       THEN IF nodes[node].left = 0
            THEN LET n2 == Append(nodes, HuffmanNode(None, 0, 0, 0))
                 IN WalkCreate([n2 EXCEPT ![node].left = Len(n2)], Len(n2), Tail(bits))
            ELSE WalkCreate(nodes, nodes[node].left, Tail(bits))
       ELSE IF nodes[node].right = 0
            THEN LET n2 == Append(nodes, HuffmanNode(None, 0, 0, 0))
                 IN WalkCreate([n2 EXCEPT ![node].right = Len(n2)], Len(n2), Tail(bits))
            ELSE WalkCreate(nodes, nodes[node].right, Tail(bits))

\* the leaf of every code hung on the right edge
InsertCodeAlwaysRight(nodes, symbol, code) ==
  LET w == WalkCreate(nodes, 1, SubSeq(code, 1, Len(code) - 1))
      n2 == Append(w.nodes, HuffmanNode(symbol, 0, 0, 0))
  IN [n2 EXCEPT ![w.node].right = Len(n2)]

\* body of the rebuild loop for one table entry with a non-empty code
InsertCode(nodes, symbol, code) ==
  LET w == WalkCreate(nodes, 1, SubSeq(code, 1, Len(code) - 1))
      n2 == Append(w.nodes, HuffmanNode(symbol, 0, 0, 0))
  IN IF code[Len(code)] = 0
     THEN [n2 EXCEPT ![w.node].left = Len(n2)]
     ELSE [n2 EXCEPT ![w.node].right = Len(n2)]

\* rebuild of the tree from the table; code[-1] raises on an empty code
RECURSIVE RebuildTree(_, _, _)
RebuildTree(nodes, cds, i) ==
  IF i > Len(cds) THEN [nodes |-> nodes, err |-> ""]
  ELSE IF cds[i].val = <<>> THEN [nodes |-> nodes, err |-> "IndexError"]
  ELSE RebuildTree(InsertCode(nodes, cds[i].key, cds[i].val), cds, i + 1)

\* the step that stays on the leaf after emitting its symbol
DecodeStepNoReset(nodes, root, bit, st) ==
  IF st.err # "" THEN st
  ELSE LET next == IF bit = 0 THEN nodes[st.current].left
                   ELSE nodes[st.current].right
       IN IF next = 0 THEN [st EXCEPT !.err = "AttributeError"]
          ELSE IF nodes[next].symbol # None
               THEN [st EXCEPT !.current = next,
                               !.symbols = Append(@, nodes[next].symbol)]
               ELSE [st EXCEPT !.current = next]

\* body of the loop of decode_huffman for one bit; None has no attribute
\* symbol, and once that is raised the loop is over
DecodeStep(nodes, root, bit, st) ==
  IF st.err # "" THEN st
  ELSE LET next == IF bit = 0 THEN nodes[st.current].left
                   ELSE nodes[st.current].right
       IN IF next = 0 THEN [st EXCEPT !.err = "AttributeError"]
          ELSE IF nodes[next].symbol # None
               THEN [st EXCEPT !.current = root,
                               !.symbols = Append(@, nodes[next].symbol)]
               ELSE [st EXCEPT !.current = next]

\* for bit in bitstring, over bits lo..hi in order
RECURSIVE DecodeLoop(_, _, _, _, _, _)
DecodeLoop(nodes, root, bits, lo, hi, st) ==
  IF lo > hi THEN st
  ELSE IF lo = hi THEN DecodeStep(nodes, root, bits[lo], st)
       ELSE LET mid == (lo + hi) \div 2
                first == DecodeLoop(nodes, root, bits, lo, mid, st)
            IN IF first.err = ""
               THEN DecodeLoop(nodes, root, bits, mid + 1, hi, first)
               ELSE first

decode_huffman(bitstring, nodes, root) ==
  IF root = 0 \/ nodes[root].symbol # None
  THEN [symbols |-> IF root # 0
                    THEN [i \in 1..Len(bitstring) |-> nodes[root].symbol]
                    ELSE <<>>,
        err |-> ""]
  ELSE LET st == DecodeLoop(nodes, root, bitstring, 1, Len(bitstring),
                            [current |-> root, symbols |-> <<>>, err |-> ""])
       IN [symbols |-> st.symbols, err |-> st.err]

\* decode_coefficients: the returned list, or the exception raised
decode_coefficients(encoded_data, table, nbits, ncoeffs) ==
  LET des == deserialize_huffman_table(table)
      tree == RebuildTree(<<HuffmanNode(None, 0, 0, 0)>>, des.codes, 1)
      bitstring == bytes_to_bitstring(encoded_data, nbits)
      dec == decode_huffman(bitstring, tree.nodes, 1)
  IN IF des.err # "" THEN [coeffs |-> <<>>, err |-> des.err]
     ELSE IF tree.err # "" THEN [coeffs |-> <<>>, err |-> tree.err]
     ELSE IF dec.err # "" THEN [coeffs |-> <<>>, err |-> dec.err]
     ELSE [coeffs |-> Slice(dec.symbols, 0, ncoeffs), err |-> ""]

----------------------------------------------------------------------------
(* Huffman coder: inputs and operations *)

RECURSIVE Fib(_)
Fib(i) == IF i <= 2 THEN 1 ELSE Fib(i - 1) + Fib(i - 2)

\* n distinct symbols, the i-th one Fib(i) times: code lengths up to n - 1
RECURSIVE SkewedStream(_)
SkewedStream(n) ==
  IF n = 0 THEN <<>>
  ELSE SkewedStream(n - 1) \o [k \in 1..Fib(n) |-> 300 * n - 1500]

HIdle ==
  /\ hpc = "idle" /\ stream = <<>> /\ codes = <<>> /\ encoded_bytes = <<>>
  /\ huffman_table = <<>> /\ num_bits = 0 /\ restored = <<>> /\ bytes_read = 0
  /\ num_coeffs = 0 /\ coeffs = <<>> /\ herr = ""

HInit ==
  /\ hpc = "input"
  /\ stream \in {SkewedStream(n) : n \in 0..MaxSkew}
  /\ codes = <<>> /\ encoded_bytes = <<>>
  /\ huffman_table = <<>> /\ num_bits = 0 /\ restored = <<>> /\ bytes_read = 0
  /\ num_coeffs = 0 /\ coeffs = <<>> /\ herr = ""

AppendSymbol(x) ==
  /\ hpc = "input"
  /\ Len(stream) < MaxLen
  /\ stream' = Append(stream, x)
  /\ UNCHANGED <<hpc, codes, encoded_bytes, huffman_table, num_bits, restored,
                 bytes_read, num_coeffs, coeffs, herr>>
  /\ UNCHANGED <<zvars, fvars, xvars>>

EncodeCoefficients ==
  /\ hpc = "input"
  /\ LET r == encode_coefficients(stream)
     IN /\ codes' = r.codes
        /\ herr' = r.err
        /\ hpc' = IF r.err = "" THEN "encoded" ELSE "failed"
        /\ encoded_bytes' = IF r.err = "" THEN r.encoded_bytes ELSE <<>>
        /\ huffman_table' = IF r.err = "" THEN r.huffman_table ELSE <<>>
        /\ num_bits' = IF r.err = "" THEN r.num_bits ELSE 0
  /\ UNCHANGED <<stream, restored, bytes_read, num_coeffs, coeffs>>
  /\ UNCHANGED <<zvars, fvars, xvars>>

DeserializeTable ==
  /\ hpc = "encoded"
  /\ LET r == deserialize_huffman_table(huffman_table)
     IN /\ restored' = r.codes
        /\ bytes_read' = r.offset
        /\ herr' = r.err
        /\ hpc' = IF r.err = "" THEN "restored" ELSE "failed"
  /\ UNCHANGED <<stream, codes, encoded_bytes, huffman_table, num_bits,
                 num_coeffs, coeffs>>
  /\ UNCHANGED <<zvars, fvars, xvars>>

DecodeCoefficients(n) ==
  /\ hpc = "restored"
  /\ LET r == decode_coefficients(encoded_bytes, huffman_table, num_bits, n)
     IN /\ coeffs' = r.coeffs
        /\ herr' = r.err
        /\ hpc' = IF r.err = "" THEN "decoded" ELSE "failed"
  /\ num_coeffs' = n
  /\ UNCHANGED <<stream, codes, encoded_bytes, huffman_table, num_bits,
                 restored, bytes_read>>
  /\ UNCHANGED <<zvars, fvars, xvars>>

----------------------------------------------------------------------------
(* Zig-zag scanner *)

\* the positions (i, j) of a block_size x block_size block
Pos(B) == (0..(B - 1)) \X (0..(B - 1))

\* even diagonal walked like an odd one, from the largest i down
DiagEvenDecreasing(B, diag) ==
  LET start == Min(diag, B - 1)
      stop == Max(-1, diag - B)
  IN [k \in 1..(start - stop) |-> <<start - (k - 1), diag - (start - (k - 1))>>]

\* even diagonal: for i in range(max(0, diag - B + 1), min(diag + 1, B))
DiagEven(B, diag) ==
  LET start == Max(0, diag - B + 1)
      stop == Min(diag + 1, B)
  IN [k \in 1..(stop - start) |-> <<start + k - 1, diag - (start + k - 1)>>]

\* odd diagonal whose range stops at max(0, diag - B) instead of max(-1, ...)
DiagOddStopZero(B, diag) ==
  LET start == Min(diag, B - 1)
      stop == Max(0, diag - B)
  IN [k \in 1..(start - stop) |-> <<start - (k - 1), diag - (start - (k - 1))>>]

\* odd diagonal: for i in range(min(diag, B - 1), max(-1, diag - B), -1)
DiagOdd(B, diag) ==
  LET start == Min(diag, B - 1)
      stop == Max(-1, diag - B)
  IN [k \in 1..(start - stop) |-> <<start - (k - 1), diag - (start - (k - 1))>>]

\* for diag in range(2 * block_size - 1), diagonals 0..diag
RECURSIVE ZigzagUpTo(_, _)
ZigzagUpTo(B, diag) ==
  IF diag < 0 THEN <<>>
  ELSE ZigzagUpTo(B, diag - 1)
         \o (IF diag % 2 = 0 THEN DiagEven(B, diag) ELSE DiagOdd(B, diag))

zigzag_order(B) == ZigzagUpTo(B, 2 * B - 2)

\* zigzag_flatten(block) for a block with block.shape[0] = B
zigzag_flatten(blk, B) ==
  LET order == zigzag_order(B)
  IN [idx \in 1..Len(order) |-> blk[order[idx]]]

\* zigzag_unflatten: a zero block in which every position of the order is
\* assigned in turn (the last assignment to a position stays); flattened[idx]
\* raises when the input is shorter than the order
zigzag_unflatten(flat, B) ==
  LET order == zigzag_order(B)
      Last(p) == CHOOSE idx \in 1..Len(order) :
                   /\ order[idx] = p
                   /\ \A k \in (idx + 1)..Len(order) : order[k] # p
  IN IF Len(flat) < Len(order)
     THEN [block |-> <<>>, err |-> "IndexError"]
     ELSE [block |-> [p \in Pos(B) |->
                        IF \E idx \in 1..Len(order) : order[idx] = p
                        THEN flat[Last(p)] ELSE 0],
           err |-> ""]

\* blocks the scanner is run on: a*i + b*j + c, the row-major index included
Blocks(B) ==
  {[p \in Pos(B) |-> a * p[1] + b * p[2] + c] :
     a \in {B, -1}, b \in {1, 0}, c \in {0, -100}}

ZInit ==
  /\ zpc = "input"
  /\ block_size \in 2..MaxBlock
  /\ block \in Blocks(block_size)
  /\ flattened = <<>> /\ unflat = <<>> /\ zerr = ""

ZigzagFlatten ==
  /\ zpc = "input"
  /\ flattened' = zigzag_flatten(block, block_size)
  /\ zpc' = "flat"
  /\ UNCHANGED <<block_size, block, unflat, zerr>>
  /\ UNCHANGED <<hvars, fvars, xvars>>

ZigzagUnflatten ==
  /\ zpc = "flat"
  /\ LET r == zigzag_unflatten(flattened, block_size)
     IN /\ unflat' = r.block
        /\ zerr' = r.err
        /\ zpc' = IF r.err = "" THEN "done" ELSE "failed"
  /\ UNCHANGED <<block_size, block, flattened>>
  /\ UNCHANGED <<hvars, fvars, xvars>>

----------------------------------------------------------------------------
(* Bitstream framer *)

\* b'MEDC'
MAGIC_NUMBER == <<77, 69, 68, 67>>
VERSION == 1

\* the arguments of pack_bitstream and the dict unpack_bitstream returns; the
\* quantization matrix is held as its row-major entries
Params(width, height, bit_depth, bsize, quality, quant, table, payload, nbits) ==
  [width |-> width, height |-> height, bit_depth |-> bit_depth,
   block_size |-> bsize, quality |-> quality, quant_matrix |-> quant,
   huffman_table |-> table, encoded_data |-> payload, num_bits |-> nbits]

\* nothing returned
NoParams == Params(0, 0, 0, 0, 0, <<>>, <<>>, <<>>, 0)

\* struct.pack('<H', v)
PackHLittle(v) == <<v % 256, v \div 256>>
\* struct.pack('>H', v)
PackH(v) == ToBytes(v, 2)
\* struct.pack('>I', v)
PackI(v) == ToBytes(v, 4)

\* struct.unpack('<H', b)[0]
UnpackHLittle(b) == b[1] + 256 * b[2]
\* struct.unpack('>H', b)[0] on two bytes
UnpackH(b) == FromBytes(b)
\* struct.unpack('>I', b)[0] on four bytes
UnpackI(b) == FromBytes(b)

\* for val in quant_flat: data.extend(struct.pack('>H', int(val)))
RECURSIVE PackQuant(_)
PackQuant(q) ==
  IF q = <<>> THEN <<>>
  ELSE PackQuant(SubSeq(q, 1, Len(q) - 1)) \o PackH(q[Len(q)])

\* struct.pack and bytearray.append raise on a value that does not fit (the
\* two '>I' fields hold every value below 2^31, the largest integer here)
PackRaises(f) ==
  \/ f.width > 65535 \/ f.height > 65535
  \/ f.bit_depth > 255 \/ f.block_size > 255 \/ f.quality > 255
  \/ Len(f.quant_matrix) > 65535
  \/ \E k \in 1..Len(f.quant_matrix) : f.quant_matrix[k] > 65535
  \/ Len(f.huffman_table) > 65535

pack_bitstream(f) ==
  MAGIC_NUMBER \o <<VERSION>>
    \o PackH(f.width) \o PackH(f.height)
    \o <<f.bit_depth, f.block_size, f.quality>>
    \o PackH(Len(f.quant_matrix)) \o PackQuant(f.quant_matrix)
    \o PackH(Len(f.huffman_table)) \o f.huffman_table
    \o PackI(f.num_bits) \o PackI(Len(f.encoded_data)) \o f.encoded_data

Raise(e, off) == [err |-> e, offset |-> off, params |-> NoParams]

\* a version check that accepts everything
VersionAccepted(version) == FALSE
\* if version != VERSION: raise
VersionRaises(version) == version # VERSION

\* a reshape that never complains
ReshapeAccepted(quant_size, bsize) == FALSE
\* np.array(quant_flat).reshape(block_size, block_size) raises unless the
\* number of entries is block_size * block_size
ReshapeRaises(quant_size, bsize) == quant_size # bsize * bsize

\* the quantization entries read from offset 14: two bytes each
UnpackQuant(d, quant_size) ==
  [k \in 1..quant_size |-> UnpackH(Slice(d, 14 + 2 * (k - 1), 14 + 2 * k))]

\* the Huffman table and encoded data sections, from the offset after the
\* quantization matrix
UnpackSections(d, off, hdr) ==
  IF Len(d) < off + 2 THEN Raise("struct.error", off)
  ELSE LET huffman_size == UnpackH(Slice(d, off, off + 2))
           table == Slice(d, off + 2, off + 2 + huffman_size)
           off2 == off + 2 + huffman_size
       IN IF Len(d) < off2 + 4 THEN Raise("struct.error", off2)
          ELSE IF Len(d) < off2 + 8 THEN Raise("struct.error", off2 + 4)
          ELSE LET nbits == UnpackI(Slice(d, off2, off2 + 4))
                   encoded_size == UnpackI(Slice(d, off2 + 4, off2 + 8))
                   payload == Slice(d, off2 + 8, off2 + 8 + encoded_size)
               IN [err |-> "",
                   offset |-> off2 + 8 + encoded_size,
                   params |-> [hdr EXCEPT !.huffman_table = table,
                                          !.encoded_data = payload,
                                          !.num_bits = nbits]]

\* unpack_bitstream: the dict returned, or the exception raised, and the
\* value of offset at that point
unpack_bitstream(d) ==
  IF Slice(d, 0, 4) # MAGIC_NUMBER THEN Raise("ValueError: Invalid magic number", 0)
  ELSE IF Len(d) < 5 THEN Raise("IndexError", 4)
  ELSE IF VersionRaises(d[5]) THEN Raise("ValueError: Unsupported version", 4)
  ELSE IF Len(d) < 7 THEN Raise("struct.error", 5)
  ELSE IF Len(d) < 9 THEN Raise("struct.error", 7)
  ELSE IF Len(d) < 10 THEN Raise("IndexError", 9)
  ELSE IF Len(d) < 11 THEN Raise("IndexError", 10)
  ELSE IF Len(d) < 12 THEN Raise("IndexError", 11)
  ELSE IF Len(d) < 14 THEN Raise("struct.error", 12)
  ELSE LET width == UnpackH(Slice(d, 5, 7))
           height == UnpackH(Slice(d, 7, 9))
           bit_depth == d[10]
           bsize == d[11]
           quality == d[12]
           quant_size == UnpackH(Slice(d, 12, 14))
           readable == Min(quant_size, (Len(d) - 14) \div 2)
           off == 14 + 2 * quant_size
       IN IF readable < quant_size THEN Raise("struct.error", 14 + 2 * readable)
          ELSE IF ReshapeRaises(quant_size, bsize)
               THEN Raise("ValueError: cannot reshape", off)
          ELSE UnpackSections(d, off,
                 Params(width, height, bit_depth, bsize, quality,
                        UnpackQuant(d, quant_size), <<>>, <<>>, 0))

\* symbol streams whose encoding fills the table and payload sections
FrameStreams ==
  {<<0>>, <<7, 7, 7, 7, 7, 7, 7, 7, 7>>, <<-1, 1, -1, 1>>,
   <<0, 0, 3, 0, -2, 0, 0, 3, 0, 0, 300>>}

\* a block_size x block_size matrix with one- and two-byte entries
QuantFor(bsize, low) == [k \in 1..(bsize * bsize) |-> IF k = 1 THEN low ELSE 256 * k - 1]

FrameInputs ==
  {LET e == encode_coefficients(st)
   IN Params(w, h, 8 * d, b, q, QuantFor(b, q), e.huffman_table, e.encoded_bytes,
             e.num_bits) :
     w \in {1, 258, 65536}, h \in {2, 65535}, d \in {1, 2}, b \in {2, 3},
     q \in {1, 100}, st \in FrameStreams}

\* byte values a received frame may carry in place of the original one
MutationBytes == {0, 1, 2, 127}

\* the two '>I' fields, where the parse of d would look for them, are below
\* 2^31 (larger integers cannot be written here)
Representable(d) ==
  Len(d) >= 14 =>
    LET off == 14 + 2 * FromBytes(Slice(d, 12, 14))
    IN Len(d) >= off + 2 =>
         LET off2 == off + 2 + FromBytes(Slice(d, off, off + 2))
         IN /\ Len(d) > off2 => d[off2 + 1] < 128
            /\ Len(d) > off2 + 4 => d[off2 + 5] < 128

FInit ==
  /\ fpc = "input"
  /\ fields \in FrameInputs
  /\ frame = <<>> /\ data = <<>> /\ params = NoParams /\ offset = 0 /\ ferr = ""

PackBitstream ==
  /\ fpc = "input"
  /\ IF PackRaises(fields)
     THEN /\ fpc' = "packfailed" /\ ferr' = "struct.error" /\ frame' = <<>>
     ELSE /\ fpc' = "packed" /\ ferr' = "" /\ frame' = pack_bitstream(fields)
  /\ UNCHANGED <<fields, data, params, offset>>
  /\ UNCHANGED <<hvars, zvars, xvars>>

\* the decoder reads the frame as it was written
ReadFrame ==
  /\ fpc = "packed"
  /\ data' = frame
  /\ fpc' = "read"
  /\ UNCHANGED <<fields, frame, params, offset, ferr>>
  /\ UNCHANGED <<hvars, zvars, xvars>>

\* the decoder reads only the first n bytes of the frame
ReadTruncated(n) ==
  /\ fpc = "packed"
  /\ data' = SubSeq(frame, 1, n)
  /\ fpc' = "read"
  /\ UNCHANGED <<fields, frame, params, offset, ferr>>
  /\ UNCHANGED <<hvars, zvars, xvars>>

\* the decoder reads the frame with the byte at position i replaced by v
ReadMutated(i, v) ==
  /\ fpc = "packed"
  /\ frame[i + 1] # v
  /\ Representable([frame EXCEPT ![i + 1] = v])
  /\ data' = [frame EXCEPT ![i + 1] = v]
  /\ fpc' = "read"
  /\ UNCHANGED <<fields, frame, params, offset, ferr>>
  /\ UNCHANGED <<hvars, zvars, xvars>>

\* decode_image up to the unpacking of the bitstream: an exception of
\* unpack_bitstream is reported as a malformed bitstream and the run exits
UnpackBitstream ==
  /\ fpc = "read"
  /\ LET r == unpack_bitstream(data)
     IN /\ params' = r.params
        /\ offset' = r.offset
        /\ ferr' = r.err
        /\ fpc' = IF r.err = "" THEN "unpacked" ELSE "rejected"
  /\ UNCHANGED <<fields, frame, data>>
  /\ UNCHANGED <<hvars, zvars, xvars>>

\* b'INVALID DATA', the file test_bitstream_validation writes
INVALID_DATA == <<73, 78, 86, 65, 76, 73, 68, 32, 68, 65, 84, 65>>

\* the exceptions of unpack_bitstream that are ValueError
ValueErrors ==
  {"ValueError: Invalid magic number", "ValueError: Unsupported version",
   "ValueError: cannot reshape"}

\* a handler written "except ValueError": the other exceptions go through
validate_bitstreamValueErrorOnly(d) ==
  LET r == unpack_bitstream(d)
  IN  IF r.err = "" THEN [returned |-> TRUE, raised |-> ""]
      ELSE IF r.err \in ValueErrors THEN [returned |-> FALSE, raised |-> ""]
      ELSE [returned |-> FALSE, raised |-> r.err]

\* validate_bitstream on a file holding the bytes d: True when
\* unpack_bitstream returns, and "except Exception" turns every exception it
\* raises (ValueError, struct.error, IndexError) into False
validate_bitstream(d) ==
  LET r == unpack_bitstream(d)
  IN  IF r.err = "" THEN [returned |-> TRUE, raised |-> ""]
      ELSE [returned |-> FALSE, raised |-> ""]

\* the file given to the validator is the one the test writes
ReadInvalidFile ==
  /\ fpc = "packed"
  /\ data' = INVALID_DATA
  /\ fpc' = "read"
  /\ UNCHANGED <<fields, frame, params, offset, ferr>>
  /\ UNCHANGED <<hvars, zvars, xvars>>

\* validate_bitstream on the file read
ValidateBitstream ==
  /\ fpc = "read"
  /\ LET v == validate_bitstream(data)
     IN  /\ ferr' = v.raised
         /\ fpc' = IF v.raised # "" THEN "validate_raised"
                   ELSE IF v.returned THEN "valid" ELSE "invalid"
  /\ UNCHANGED <<fields, frame, data, params, offset>>
  /\ UNCHANGED <<hvars, zvars, xvars>>

\* validate_bitstream on a path that cannot be opened: open raises inside the
\* try block, and the handler returns False
ValidateMissingFile ==
  /\ fpc = "packed"
  /\ ferr' = ""
  /\ fpc' = "invalid"
  /\ UNCHANGED <<fields, frame, data, params, offset>>
  /\ UNCHANGED <<hvars, zvars, xvars>>

----------------------------------------------------------------------------
(* Quantizer *)

\* base_matrix of create_quantization_matrix: eight rows of eight entries
base_matrix ==
  << <<16, 11, 10, 16, 24, 40, 51, 61>>,
     <<12, 12, 14, 19, 26, 58, 60, 55>>,
     <<14, 13, 16, 24, 40, 57, 69, 56>>,
     <<14, 17, 22, 29, 51, 87, 80, 62>>,
     <<18, 22, 37, 56, 68, 109, 103, 77>>,
     <<24, 35, 55, 64, 81, 104, 113, 92>>,
     <<49, 64, 78, 87, 103, 121, 120, 101>>,
     <<72, 92, 95, 98, 112, 100, 103, 99>> >>

\* np.clip(x, lo, hi)
Clip(x, lo, hi) == Min(Max(x, lo), hi)

\* a 2-D array is the sequence of its rows; array.flatten().tolist()
RECURSIVE Flatten(_)
Flatten(m) == IF m = <<>> THEN <<>> ELSE Head(m) \o Flatten(Tail(m))

\* an entry that may be 0
QuantEntryNoFloor(base, q, depth) ==
  LET num == IF q < 50 THEN base * 25 * Pow(2, depth) + 64 * q
             ELSE base * (200 - 2 * q) * Pow(2, depth) + 12800
      den == IF q < 50 THEN 128 * q ELSE 25600
  IN  Min(num \div den, 65535)

\* One entry of the matrix, for q >= 1:
\*   np.clip(np.floor((base * scale * bit_scale + 50) / 100), 1, 65535)
\* with bit_scale = 2^depth / 256 and scale = 5000 / q (q < 50) or 200 - 2q.
\* The float expression is the fraction num / den below (reduced by 200 so
\* that it stays within 32 bits); on q in 1..100, depth in 8..16 the double
\* arithmetic of the code rounds to the same floor as the exact fraction.
QuantEntry(base, q, depth) ==
  LET num == IF q < 50 THEN base * 25 * Pow(2, depth) + 64 * q
             ELSE base * (200 - 2 * q) * Pow(2, depth) + 12800
      den == IF q < 50 THEN 128 * q ELSE 25600
  IN  Clip(num \div den, 1, 65535)

\* a matrix whose scale grows with the quality
create_quantization_matrixReversed(q, bsize, depth) ==
  [i \in 1..Len(base_matrix) |->
     [j \in 1..Len(base_matrix[i]) |-> QuantEntry(base_matrix[i][j], 101 - q, depth)]]

\* create_quantization_matrix(quality, block_size, bit_depth): block_size is
\* accepted and never used, the result always has the shape of base_matrix
create_quantization_matrix(q, bsize, depth) ==
  [i \in 1..Len(base_matrix) |->
     [j \in 1..Len(base_matrix[i]) |-> QuantEntry(base_matrix[i][j], q, depth)]]

\* arguments the quantizer is called with
Qualities == 1..100
BitDepths == 8..16
BlockSizes == {2, 3, 4, 8, 9, 16, 255}

QIdle ==
  /\ qpc = "idle" /\ quality_arg = 0 /\ bit_depth_arg = 0 /\ block_size_arg = 0
  /\ quant_matrix = <<>>

QInit ==
  /\ qpc = "input"
  /\ quality_arg \in Qualities
  /\ bit_depth_arg \in BitDepths
  /\ block_size_arg \in BlockSizes
  /\ quant_matrix = <<>>

CreateQuantizationMatrix ==
  /\ qpc = "input"
  /\ quant_matrix' = create_quantization_matrix(quality_arg, block_size_arg, bit_depth_arg)
  /\ qpc' = "created"
  /\ UNCHANGED <<quality_arg, bit_depth_arg, block_size_arg>>
  /\ UNCHANGED <<hvars, zvars, fvars, pvars, cvars, tvars>>

----------------------------------------------------------------------------
(* Padding *)

\* largest height and width of the images padded with every block size
MaxDim == 5
\* largest block size those images are padded to
MaxPadBlock == 4

\* image.shape of a 2-D array (a sequence of rows)
Shape(m) == <<Len(m), IF m = <<>> THEN 0 ELSE Len(m[1])>>

\* np.pad(image, ((0, pad_h), (0, pad_w)), mode='constant')
PadZero(m, pad_h, pad_w) ==
  LET h == Len(m)
      w == Len(m[1])
  IN  [i \in 1..(h + pad_h) |->
         [j \in 1..(w + pad_w) |-> IF i <= h /\ j <= w THEN m[i][j] ELSE 0]]

\* np.pad(image, ((0, pad_h), (0, pad_w)), mode='edge'): the last row is
\* repeated pad_h times, then the last entry of every row pad_w times
PadEdge(m, pad_h, pad_w) ==
  LET rows == m \o [k \in 1..pad_h |-> m[Len(m)]]
  IN  [i \in 1..Len(rows) |->
         rows[i] \o [k \in 1..pad_w |-> rows[i][Len(rows[i])]]]

\* pad_image(image, block_size): (padded, original_shape)
pad_image(m, bsize) ==
  LET height == Shape(m)[1]
      width == Shape(m)[2]
      pad_h == (bsize - (height % bsize)) % bsize
      pad_w == (bsize - (width % bsize)) % bsize
  IN  IF pad_h = 0 /\ pad_w = 0 THEN <<m, <<height, width>> >>
      ELSE <<PadEdge(m, pad_h, pad_w), <<height, width>> >>

\* unpad_image(image, original_shape): image[:height, :width]
unpad_image(m, shape) ==
  LET rows == Slice(m, 0, shape[1])
  IN  [i \in 1..Len(rows) |-> Slice(rows[i], 0, shape[2])]

\* padded dimensions and block count as decode_image derives them
PaddedDim(n, bsize) == ((n + bsize - 1) \div bsize) * bsize
NumBlocks(height, width, bsize) ==
  (PaddedDim(height, bsize) \div bsize) * (PaddedDim(width, bsize) \div bsize)

\* an image whose pixels are all different: pixel (i, j) holds 16 i + j
Ramp(height, width) == [i \in 1..height |-> [j \in 1..width |-> 16 * i + j]]

PIdle ==
  /\ ppc = "idle" /\ image = <<>> /\ pad_size = 0 /\ padded_image = <<>>
  /\ original_shape = <<0, 0>> /\ unpadded = <<>>

PInit ==
  /\ ppc = "input"
  /\ \/ \E h \in 1..MaxDim, w \in 1..MaxDim :
          image = Ramp(h, w) /\ pad_size \in 2..MaxPadBlock
     \/ image = Ramp(10, 14) /\ pad_size = 8
  /\ padded_image = <<>> /\ original_shape = <<0, 0>> /\ unpadded = <<>>

PadImage ==
  /\ ppc = "input"
  /\ LET r == pad_image(image, pad_size)
     IN  padded_image' = r[1] /\ original_shape' = r[2]
  /\ ppc' = "padded_image"
  /\ UNCHANGED <<image, pad_size, unpadded>>
  /\ UNCHANGED <<hvars, zvars, fvars, qvars, cvars, tvars>>

UnpadImage ==
  /\ ppc = "padded_image"
  /\ unpadded' = unpad_image(padded_image, original_shape)
  /\ ppc' = "unpadded"
  /\ UNCHANGED <<image, pad_size, padded_image, original_shape>>
  /\ UNCHANGED <<hvars, zvars, fvars, qvars, cvars, tvars>>

----------------------------------------------------------------------------
(* Encoder: encode_image *)

\* np.round(num / den) for den > 0: to the nearest integer, ties to even
RoundHalfEven(num, den) ==
  LET q == num \div den
      r == num % den
  IN  IF 2 * r < den THEN q
      ELSE IF 2 * r > den THEN q + 1
      ELSE IF q % 2 = 0 THEN q ELSE q + 1

\* np.round of a quotient whose numerator carries a rounding error (the
\* output of the floating-point DCT): an exact tie may fall to either side
RoundOutcomes(num, den, exact) ==
  IF ~exact /\ 2 * (num % den) = den
  THEN {num \div den, (num \div den) + 1}
  ELSE {RoundHalfEven(num, den)}

\* float64 -> int16 of astype(np.int16).  A value outside the int16 range is
\* not defined by the conversion; a build either keeps the low 16 bits
\* ("wrap") or yields the minimum ("min")
AsInt16(x, cast) ==
  IF -32768 <= x /\ x <= 32767 THEN x
  ELSE IF cast = "wrap" THEN ((x + 32768) % 65536) - 32768
  ELSE -32768

\* image[i:i+B, j:j+B] for offsets inside an image padded to multiples of B
BlockAt(m, i, j, B) == [r \in 1..B |-> [c \in 1..B |-> m[i + r][j + c]]]

\* the offsets visited column by column
BlockOffsetsColumnMajor(height, width, B) ==
  LET nh == height \div B
  IN  [k \in 1..(nh * (width \div B)) |->
         <<((k - 1) % nh) * B, ((k - 1) \div nh) * B>>]

\* the (i, j) offsets of "for i in range(0, height, B): for j in range(0,
\* width, B)", in the order the loops visit them
BlockOffsets(height, width, B) ==
  LET nw == width \div B
  IN  [k \in 1..((height \div B) * nw) |->
         <<((k - 1) \div nw) * B, ((k - 1) % nw) * B>>]

\* dct2d of a block whose B x B samples all equal v: the orthonormal 2-D
\* DCT-II has the DC coefficient B * v and no other component.  The images
\* of the model are constant on every block.
dct2d(blk) ==
  [i \in 1..Len(blk) |->
     [j \in 1..Len(blk) |-> IF i = 1 /\ j = 1 THEN Len(blk) * blk[1][1] ELSE 0]]

\* quantize(coeffs, quant_matrix): the arrays np.round(coeffs /
\* quant_matrix).astype(np.int16) can be.  A 1 x 1 block broadcasts against
\* the matrix (its one coefficient is exact), a block of the matrix's shape
\* divides entry by entry, any other shape raises ValueError (no outcome).
quantize(dct_block, quant, cast) ==
  IF Len(dct_block) = 1
  THEN {[i \in 1..Len(quant) |-> [j \in 1..Len(quant[i]) |->
           AsInt16(RoundHalfEven(dct_block[1][1], quant[i][j]), cast)]]}
  ELSE IF Len(dct_block) = Len(quant)
  THEN {[i \in 1..Len(quant) |-> [j \in 1..Len(quant[i]) |->
           IF i = 1 /\ j = 1 THEN AsInt16(dc, cast) ELSE 0]] :
          dc \in RoundOutcomes(dct_block[1][1], quant[1][1], dct_block[1][1] = 0)}
  ELSE {}

\* the lists that take one element of each set, in order
RECURSIVE Choices(_)
Choices(sets) ==
  IF sets = <<>> THEN {<<>>}
  ELSE {<<x>> \o rest : x \in Head(sets), rest \in Choices(Tail(sets))}

\* block_dct_encode(image, quant_matrix, block_size): the lists of quantized
\* blocks it can return, none when quantize raises.  Every block of the
\* padded image is block_size x block_size, so quantize raises on the first
\* block unless block_size is 1 or the size of the matrix.
block_dct_encode(m, quant, bsize, cast) ==
  LET offs == BlockOffsets(Len(m), Len(m[1]), bsize)
  IN  IF bsize # 1 /\ bsize # Len(quant) THEN {}
      ELSE Choices([k \in 1..Len(offs) |->
                      quantize(dct2d(BlockAt(m, offs[k][1], offs[k][2], bsize)),
                               quant, cast)])

\* a 2-D array as the block (a function of 0-based positions) of the scanner
AsBlock(m) == [p \in Pos(Len(m)) |-> m[p[1] + 1][p[2] + 1]]

\* all_coeffs of encode_coefficients: the zig-zag lists of the blocks, joined
RECURSIVE JoinBlocks(_)
JoinBlocks(blocks) ==
  IF blocks = <<>> THEN <<>>
  ELSE zigzag_flatten(AsBlock(Head(blocks)), Len(Head(blocks)))
         \o JoinBlocks(Tail(blocks))

EncodeResult(e, bs) == [err |-> e, bitstream |-> bs]

\* encode_image from the entropy coder's result on: framing and writing
EncodeFrame(px, depth, q, bsize, quant_flat, enc) ==
  LET f == Params(Shape(px)[2], Shape(px)[1], depth, bsize, q, quant_flat,
                  enc.huffman_table, enc.encoded_bytes, enc.num_bits)
  IN  IF enc.err # "" THEN EncodeResult(enc.err, <<>>)
      ELSE IF PackRaises(f) THEN EncodeResult("struct.error", <<>>)
      ELSE EncodeResult("", pack_bitstream(f))

\* encode_image from the quantized blocks on: zig-zag scan, entropy coding
EncodeBlocks(px, depth, q, bsize, quant_flat, lists) ==
  IF lists = {} THEN {EncodeResult("ValueError", <<>>)}
  ELSE UNION {{EncodeFrame(px, depth, q, bsize, quant_flat, enc) :
                 enc \in {encode_coefficients(JoinBlocks(blocks))}} :
              blocks \in lists}

\* encode_image from the padded image and the quantization matrix on
EncodePadded(px, depth, q, bsize, cast, padded, quant) ==
  UNION {EncodeBlocks(px, depth, q, bsize, quant_flat, lists) :
           quant_flat \in {Flatten(quant)},
           lists \in {block_dct_encode(padded, quant, bsize, cast)}}

\* encode_image(input_path, output_path, quality, block_size) on an image
\* read with bit depth "depth": the outcomes it can have, each the exception
\* that ends it or the frame it writes.  Nothing checks the arguments: a
\* zero block size fails in pad_image, a zero quality in
\* create_quantization_matrix, a block the matrix does not broadcast
\* against in quantize (on the first block, whatever the image).
\* Intermediate results are bound as set elements so that each is computed
\* once.
encode_image(px, depth, q, bsize, cast) ==
  IF bsize = 0 \/ q = 0 THEN {EncodeResult("ZeroDivisionError", <<>>)}
  ELSE IF bsize # 1 /\ bsize # Len(base_matrix)
  THEN {EncodeResult("ValueError", <<>>)}
  ELSE UNION {EncodePadded(px, depth, q, bsize, cast, padded, quant) :
                padded \in {pad_image(px, bsize)[1]},
                quant \in {create_quantization_matrix(q, bsize, depth)}}

----------------------------------------------------------------------------
(* Decoder: decode_image *)

\* the block loop of decode_image: block i is zigzag_unflatten of
\* coeffs_flat[i*B*B : (i+1)*B*B]; a slice shorter than the scan order makes
\* flattened[idx] raise
ReshapeBlocks(flat, num_blocks, bsize) ==
  LET rs == [i \in 1..num_blocks |->
               zigzag_unflatten(Slice(flat, (i - 1) * bsize * bsize,
                                      i * bsize * bsize), bsize)]
  IN  IF \E i \in 1..num_blocks : rs[i].err # ""
      THEN [blocks |-> <<>>, err |-> "IndexError"]
      ELSE [blocks |-> [i \in 1..num_blocks |-> rs[i].block], err |-> ""]

\* The values np.clip(idct2d(dequantize(block, quant_matrix)), 0,
\* max_val).astype(np.int32) can have in one block.  With only the DC
\* coefficient set, every sample of the inverse DCT is DC / B: below 0 it
\* clips to 0, above max_val to max_val, and the cast truncates; a sample
\* whose exact value is a positive integer k is computed in floating point
\* and may come out just below k, so it is k - 1 or k.  With other
\* coefficients set the samples are any values of the clipped range.
PixelOutcomes(blk, quant, bsize, max_val) ==
  LET num == blk[<<0, 0>>] * quant[1]
  IN  IF \E p \in Pos(bsize) \ {<<0, 0>>} :
           blk[p] * quant[p[1] * bsize + p[2] + 1] # 0
      THEN 0..max_val
      ELSE IF num <= 0 THEN {0}
      ELSE IF num > max_val * bsize THEN {max_val}
      ELSE IF num % bsize # 0 THEN {num \div bsize}
      ELSE {(num \div bsize) - 1, num \div bsize}

\* the reconstruction left at its padded size
ReconstructPadded(blocks, f) ==
  LET B == f.block_size
      nw == PaddedDim(f.width, B) \div B
      max_val == Pow(2, f.bit_depth) - 1
  IN  [i \in 1..PaddedDim(f.height, B) |-> [j \in 1..PaddedDim(f.width, B) |->
         PixelOutcomes(blocks[((i - 1) \div B) * nw + ((j - 1) \div B) + 1],
                       f.quant_matrix, B, max_val)]]

\* block_dct_decode, unpad_image and the clip of decode_image: the image of
\* f.height rows and f.width columns, each pixel the set of values it can
\* have; block k covers rows i..i+B-1 and columns j..j+B-1 of its offset
Reconstruct(blocks, f) ==
  LET B == f.block_size
      nw == PaddedDim(f.width, B) \div B
      max_val == Pow(2, f.bit_depth) - 1
      out == [k \in 1..Len(blocks) |->
                PixelOutcomes(blocks[k], f.quant_matrix, B, max_val)]
  IN  [i \in 1..f.height |-> [j \in 1..f.width |->
         out[((i - 1) \div B) * nw + ((j - 1) \div B) + 1]]]

\* save_raw_image: np.clip(pixels, 0, max_val).astype(np.uint16).tofile
save_raw_image(img, depth) ==
  [i \in 1..Len(img) |-> [j \in 1..Len(img[i]) |->
     {Clip(x, 0, Pow(2, depth) - 1) % 65536 : x \in img[i][j]}]]

\* the serialized table without its last entry
DropLastEntry(table) ==
  LET cds == deserialize_huffman_table(table).codes
  IN  serialize_huffman_table(SubSeq(cds, 1, Len(cds) - 1))

\* the frames another producer could have packed from the sections f of a
\* frame: with one more or one less row of blocks declared, with a bit count
\* one short or covering the padding bits, or with a table that lacks its
\* last entry or every entry
Repacked(f) ==
  {pack_bitstream([f EXCEPT !.height = f.height + f.block_size]),
   pack_bitstream([f EXCEPT !.height = Max(1, f.height - f.block_size)]),
   pack_bitstream([f EXCEPT !.num_bits = Max(0, f.num_bits - 1)]),
   pack_bitstream([f EXCEPT !.num_bits = 8 * Len(f.encoded_data)]),
   pack_bitstream([f EXCEPT !.huffman_table = DropLastEntry(f.huffman_table)]),
   pack_bitstream([f EXCEPT !.huffman_table = serialize_huffman_table(<<>>)])}

\* Files the decoder is run on, given a frame bs the encoder wrote: the frame
\* itself, the frame without its last byte or with a wrong first byte, and,
\* when the frame unpacks, the frames repacked from its sections.
FilesFrom(bs) ==
  {bs, SubSeq(bs, 1, Len(bs) - 1), [bs EXCEPT ![1] = 0]}
    \cup UNION {IF r.err # "" THEN {} ELSE Repacked(r.params) :
                  r \in {unpack_bitstream(bs)}}

----------------------------------------------------------------------------
(* Encoder and decoder programs: inputs and steps *)

\* an image of h rows and w columns that is constant on every 8 x 8 block:
\* vals[r][c] is the value of the block in block row r and block column c
BlockImage(h, w, vals) ==
  [i \in 1..h |-> [j \in 1..w |-> vals[((i - 1) \div 8) + 1][((j - 1) \div 8) + 1]]]

\* images read with a given bit depth: pixel values from 0 to 2^depth - 1
Images(depth) ==
  LET top == Pow(2, depth) - 1
  IN  {BlockImage(8, 8, << <<0>> >>), BlockImage(8, 8, << <<1>> >>),
       BlockImage(8, 8, << <<top>> >>), BlockImage(1, 1, << <<top>> >>),
       BlockImage(10, 14, << <<0, 1>>, <<top, top \div 2>> >>),
       BlockImage(10, 14, << <<0, 0>>, <<0, 0>> >>),
       BlockImage(16, 8, << <<top>>, <<3>> >>)}

\* --quality, --block-size and the BitsStored of the input, in and out of the
\* ranges 1..100, 2..255 and 8..16
QualityOpts == {0, 1, 50, 75, 100, 101}
BlockSizeOpts == {0, 1, 2, 8, 256}
BitDepthOpts == {7, 8, 12, 16, 17}

NoImage == <<>>

CIdle ==
  /\ cpc = "idle" /\ pixels = NoImage /\ metadata = 0 /\ quality_opt = 0
  /\ block_size_opt = 0 /\ int16_cast = "" /\ bitstream = <<>>
  /\ bitstream_data = <<>> /\ dec_params = NoParams /\ coeffs_flat = <<>>
  /\ dct_blocks = <<>> /\ reconstructed = NoImage /\ output_file = NoImage
  /\ cerr = ""

\* a block size of 1 makes 64 coefficients of every pixel: it is run on the
\* one-pixel image only
CInit ==
  /\ cpc = "input"
  /\ metadata \in BitDepthOpts
  /\ pixels \in Images(metadata)
  /\ quality_opt \in QualityOpts
  /\ block_size_opt \in BlockSizeOpts
  /\ block_size_opt = 1 => Shape(pixels) = <<1, 1>>
  /\ int16_cast \in {"wrap", "min"}
  /\ bitstream = <<>> /\ bitstream_data = <<>> /\ dec_params = NoParams
  /\ coeffs_flat = <<>> /\ dct_blocks = <<>> /\ reconstructed = NoImage
  /\ output_file = NoImage /\ cerr = ""

inputs == <<pixels, metadata, quality_opt, block_size_opt, int16_cast>>

\* encode_image called directly
EncodeImage ==
  /\ cpc = "input"
  /\ \E r \in encode_image(pixels, metadata, quality_opt, block_size_opt,
                           int16_cast) :
       /\ bitstream' = r.bitstream
       /\ cerr' = r.err
       /\ cpc' = IF r.err = "" THEN "encoded" ELSE "encode_raised"
  /\ UNCHANGED <<inputs, bitstream_data, dec_params, coeffs_flat, dct_blocks,
                 reconstructed, output_file>>
  /\ UNCHANGED <<hvars, zvars, fvars, qvars, pvars, tvars>>

\* main of encode.py: only the quality is checked before encode_image runs
EncodeMain ==
  /\ cpc = "input"
  /\ IF ~(1 <= quality_opt /\ quality_opt <= 100)
     THEN /\ bitstream' = <<>>
          /\ cerr' = "Error: Quality must be between 1 and 100"
          /\ cpc' = "encode_exit"
     ELSE \E r \in encode_image(pixels, metadata, quality_opt, block_size_opt,
                                int16_cast) :
            /\ bitstream' = r.bitstream
            /\ cerr' = r.err
            /\ cpc' = IF r.err = "" THEN "encoded" ELSE "encode_raised"
  /\ UNCHANGED <<inputs, bitstream_data, dec_params, coeffs_flat, dct_blocks,
                 reconstructed, output_file>>
  /\ UNCHANGED <<hvars, zvars, fvars, qvars, pvars, tvars>>

\* decode_image, reading the input file
ReadBitstream ==
  /\ cpc = "encoded"
  /\ \E file \in FilesFrom(bitstream) : bitstream_data' = file
  /\ cpc' = "read"
  /\ UNCHANGED <<inputs, bitstream, dec_params, coeffs_flat, dct_blocks,
                 reconstructed, output_file, cerr>>
  /\ UNCHANGED <<hvars, zvars, fvars, qvars, pvars, tvars>>

\* decode_image on a file that cannot be read: the handler exits
ReadFails ==
  /\ cpc = "encoded"
  /\ cerr' = "Error reading input file"
  /\ cpc' = "exit"
  /\ UNCHANGED <<inputs, bitstream, bitstream_data, dec_params, coeffs_flat,
                 dct_blocks, reconstructed, output_file>>
  /\ UNCHANGED <<hvars, zvars, fvars, qvars, pvars, tvars>>

\* decode_image, unpacking: any exception of unpack_bitstream is reported as
\* a malformed bitstream and the program exits
UnpackFrame ==
  /\ cpc = "read"
  /\ \E r \in {unpack_bitstream(bitstream_data)} :
       IF r.err # ""
       THEN /\ cerr' = "Error: Malformed bitstream"
            /\ cpc' = "exit"
            /\ UNCHANGED dec_params
       ELSE /\ dec_params' = r.params
            /\ cpc' = "unpacked"
            /\ UNCHANGED cerr
  /\ UNCHANGED <<inputs, bitstream, bitstream_data, coeffs_flat, dct_blocks,
                 reconstructed, output_file>>
  /\ UNCHANGED <<hvars, zvars, fvars, qvars, pvars, tvars>>

\* decode_image, padded dimensions and Huffman decoding; nothing catches an
\* exception from here on
HuffmanDecode ==
  /\ cpc = "unpacked"
  /\ LET f == dec_params
         B == f.block_size
     IN  IF B = 0
         THEN cerr' = "ZeroDivisionError" /\ cpc' = "raised"
                /\ UNCHANGED coeffs_flat
         ELSE \E r \in {decode_coefficients(f.encoded_data, f.huffman_table,
                            f.num_bits, NumBlocks(f.height, f.width, B) * B * B)} :
                IF r.err # ""
                THEN cerr' = r.err /\ cpc' = "raised" /\ UNCHANGED coeffs_flat
                ELSE coeffs_flat' = r.coeffs /\ cpc' = "huffman" /\ UNCHANGED cerr
  /\ UNCHANGED <<inputs, bitstream, bitstream_data, dec_params, dct_blocks,
                 reconstructed, output_file>>
  /\ UNCHANGED <<hvars, zvars, fvars, qvars, pvars, tvars>>

\* the block loop with the exception swallowed: the blocks are left zero
ReconstructBlocksLenient ==
  /\ cpc = "huffman"
  /\ LET f == dec_params
         n == NumBlocks(f.height, f.width, f.block_size)
     IN  \E r \in {ReshapeBlocks(coeffs_flat, n, f.block_size)} :
           IF r.err # ""
           THEN /\ cerr' = r.err
                /\ cpc' = "blocks"
                /\ dct_blocks' = [i \in 1..n |-> [p \in Pos(f.block_size) |-> 0]]
           ELSE dct_blocks' = r.blocks /\ cpc' = "blocks" /\ UNCHANGED cerr
  /\ UNCHANGED <<inputs, bitstream, bitstream_data, dec_params, coeffs_flat,
                 reconstructed, output_file>>
  /\ UNCHANGED <<hvars, zvars, fvars, qvars, pvars, tvars>>

\* decode_image, reshaping the coefficient list into blocks
ReconstructBlocks ==
  /\ cpc = "huffman"
  /\ LET f == dec_params
     IN  \E r \in {ReshapeBlocks(coeffs_flat,
                                 NumBlocks(f.height, f.width, f.block_size),
                                 f.block_size)} :
           IF r.err # ""
           THEN cerr' = r.err /\ cpc' = "raised" /\ UNCHANGED dct_blocks
           ELSE dct_blocks' = r.blocks /\ cpc' = "blocks" /\ UNCHANGED cerr
  /\ UNCHANGED <<inputs, bitstream, bitstream_data, dec_params, coeffs_flat,
                 reconstructed, output_file>>
  /\ UNCHANGED <<hvars, zvars, fvars, qvars, pvars, tvars>>

\* decode_image, inverse DCT, unpadding and clipping
InverseDct ==
  /\ cpc = "blocks"
  /\ reconstructed' = Reconstruct(dct_blocks, dec_params)
  /\ cpc' = "reconstructed"
  /\ UNCHANGED <<inputs, bitstream, bitstream_data, dec_params, coeffs_flat,
                 dct_blocks, output_file, cerr>>
  /\ UNCHANGED <<hvars, zvars, fvars, qvars, pvars, tvars>>

\* decode_image, writing the output file
SaveRawImage ==
  /\ cpc = "reconstructed"
  /\ output_file' = save_raw_image(reconstructed, dec_params.bit_depth)
  /\ cpc' = "saved"
  /\ UNCHANGED <<inputs, bitstream, bitstream_data, dec_params, coeffs_flat,
                 dct_blocks, reconstructed, cerr>>
  /\ UNCHANGED <<hvars, zvars, fvars, qvars, pvars, tvars>>

----------------------------------------------------------------------------
(* Size of the Huffman table section *)

\* The dict of generate_huffman_codes is held here by its codeword lengths
\* only: entry l of the sequence is the number of symbols whose codeword has
\* l bits.  The sizes serialize_huffman_table and pack_bitstream deal with
\* depend on nothing else.

\* longest codeword of the one-symbol-per-length codes
MaxSkewedCode == 40

RECURSIVE SumFrom(_, _)
SumFrom(s, i) == IF i > Len(s) THEN 0 ELSE s[i] + SumFrom(s, i + 1)

\* len(codes)
NumSymbols(lengths) == SumFrom(lengths, 1)

\* len(serialize_huffman_table(codes)): 2 bytes of num_symbols, then per
\* symbol 2 bytes of symbol, 1 of code_length and (code_length + 7) // 8 of
\* code
RECURSIVE EntryBytesFrom(_, _)
EntryBytesFrom(lengths, l) ==
  IF l > Len(lengths) THEN 0
  ELSE lengths[l] * (2 + 1 + ((l + 7) \div 8)) + EntryBytesFrom(lengths, l + 1)
TableLength(lengths) == 2 + EntryBytesFrom(lengths, 1)

\* the exception serialize_huffman_table raises: len(codes).to_bytes(2) on
\* more than 65535 entries, bytearray.append(code_length) above 255
TableError(lengths) ==
  IF NumSymbols(lengths) > 65535 THEN "OverflowError"
  ELSE IF \E l \in 1..Len(lengths) : lengths[l] > 0 /\ l > 255 THEN "ValueError"
  ELSE ""

\* the code of a stream in which 2^k symbols are equally frequent: 2^k
\* codewords of k bits (one codeword "0" when k = 0)
UniformCode(k) ==
  [l \in 1..Max(k, 1) |-> IF l = Max(k, 1) THEN Pow(2, k) ELSE 0]

\* the code of m symbols with Fibonacci frequencies: one codeword of each
\* length 1..m-2 and two of length m-1
SkewedCode(m) == [l \in 1..(m - 1) |-> IF l = m - 1 THEN 2 ELSE 1]

\* the code of the quantized coefficients of a 512 x 512 image of 16-bit
\* noise (pixels 0..6000) at quality 100: 13381 codewords of 10 to 18 bits
NoiseCode ==
  <<0, 0, 0, 0, 0, 0, 0, 0, 0, 1, 44, 1955, 2631, 1594, 1296, 1291, 1339, 3230>>

\* codes over int16 symbols (at most 2^16 of them) of streams an image of at
\* most 65535 x 65535 pixels can give
CodeProfiles ==
  {UniformCode(k) : k \in 0..16} \cup {SkewedCode(m) : m \in 2..MaxSkewedCode}
    \cup {NoiseCode}

TIdle == tpc = "idle" /\ code_lengths = <<>> /\ table_len = 0 /\ terr = ""

TInit ==
  /\ tpc = "input"
  /\ code_lengths \in CodeProfiles
  /\ table_len = 0 /\ terr = ""

\* encode_coefficients: huffman_table = serialize_huffman_table(codes)
SerializeTable ==
  /\ tpc = "input"
  /\ \E e \in {TableError(code_lengths)} :
       IF e # ""
       THEN tpc' = "serialize_raised" /\ terr' = e /\ UNCHANGED table_len
       ELSE /\ tpc' = "serialized" /\ terr' = ""
            /\ table_len' = TableLength(code_lengths)
  /\ UNCHANGED code_lengths
  /\ UNCHANGED <<hvars, zvars, fvars, qvars, pvars, cvars>>

\* pack_bitstream: struct.pack('>H', len(huffman_table)) raises struct.error
\* above 65535
PackTable ==
  /\ tpc = "serialized"
  /\ IF table_len > 65535
     THEN tpc' = "pack_raised" /\ terr' = "struct.error"
     ELSE tpc' = "packed" /\ terr' = ""
  /\ UNCHANGED <<code_lengths, table_len>>
  /\ UNCHANGED <<hvars, zvars, fvars, qvars, pvars, cvars>>

----------------------------------------------------------------------------
(* Idle components *)

XIdle == QIdle /\ PIdle /\ CIdle /\ TIdle

ZIdle ==
  /\ zpc = "idle" /\ block_size = 0 /\ block = <<>> /\ flattened = <<>>
  /\ unflat = <<>> /\ zerr = ""

FIdle ==
  /\ fpc = "idle" /\ fields = NoParams /\ frame = <<>> /\ data = <<>>
  /\ params = NoParams /\ offset = 0 /\ ferr = ""

----------------------------------------------------------------------------
(* Specification of the Huffman coder *)

Init == HInit /\ ZIdle /\ FIdle /\ XIdle
Next ==
  \/ \E x \in Symbols : AppendSymbol(x)
  \/ EncodeCoefficients
  \/ DeserializeTable
  \/ \E n \in {Len(stream), Len(stream) + 1} \cup ({Len(stream) - 1} \ {-1}) :
       DecodeCoefficients(n)
Spec == Init /\ [][Next]_vars

----------------------------------------------------------------------------
(* Properties of the Huffman coder *)

Distinct(s) == {s[i] : i \in 1..Len(s)}
IsPrefix(a, b) == Len(a) <= Len(b) /\ SubSeq(b, 1, Len(a)) = a
\* equality of two dicts as maps: same keys, same value under every key
SameMap(a, b) ==
  /\ Len(a) = Len(b)
  /\ Keys(a) = Keys(b)
  /\ \A k \in Keys(a) : Get(a, k) = Get(b, k)
MaxCodeLen(d) == IF d = <<>> THEN 0
                 ELSE CHOOSE m \in {Len(d[i].val) : i \in 1..Len(d)} :
                        \A i \in 1..Len(d) : Len(d[i].val) <= m
RECURSIVE KraftNumerator(_, _, _)
KraftNumerator(d, i, m) ==
  IF i > Len(d) THEN 0
  ELSE Pow(2, m - Len(d[i].val)) + KraftNumerator(d, i + 1, m)
\* the Kraft sum of the code lengths of d is exactly 1
KraftIsOne(d) == KraftNumerator(d, 1, MaxCodeLen(d)) = Pow(2, MaxCodeLen(d))
PrefixFree(d) ==
  \A i, j \in 1..Len(d) : i # j => ~IsPrefix(d[i].val, d[j].val)
\* generate_huffman_codes has returned
Built == hpc \in {"encoded", "restored", "decoded", "failed"}
Restored == hpc \in {"restored", "decoded"}

C3_PrefixCode ==
  (Built /\ stream # <<>>) =>
     /\ codes # <<>>
     /\ PrefixFree(codes)
     /\ \A i \in 1..Len(codes) : codes[i].val # <<>>

C3_Witness ==
  /\ Built /\ Len(codes) >= 3 /\ PrefixFree(codes)
  /\ \E i, j \in 1..Len(codes) : Len(codes[i].val) # Len(codes[j].val)

\* C4 as stated: the table stored for an encoded stream is a complete prefix
\* code (Kraft sum 1) over exactly the distinct symbols of the stream.
C4_CompletePrefixCode ==
  (Restored /\ stream # <<>>) =>
     /\ PrefixFree(restored)
     /\ KraftIsOne(restored)
     /\ Keys(restored) = Distinct(stream)

\* C4 amended: the stored table is a prefix code over exactly the distinct
\* symbols of the stream; it is complete when the stream has at least two
\* distinct symbols, and is the single codeword "0" when it has one.
C4_PrefixCodeCompleteFromTwo ==
  (Restored /\ stream # <<>>) =>
     /\ PrefixFree(restored)
     /\ Keys(restored) = Distinct(stream)
     /\ Len(restored) = Cardinality(Distinct(stream))
     /\ Cardinality(Distinct(stream)) >= 2 => KraftIsOne(restored)
     /\ Cardinality(Distinct(stream)) = 1 => restored[1].val = <<0>>

C4_Witness ==
  /\ Restored /\ Cardinality(Distinct(stream)) >= 3
  /\ KraftIsOne(restored) /\ Keys(restored) = Distinct(stream)

\* C5: a frequency table with exactly one symbol gives that symbol the code
\* "0", and the tree the decoder rebuilds from the stored table decodes every
\* '0' bit to that symbol.
C5_SingleSymbol ==
  (Restored /\ Cardinality(Distinct(stream)) = 1) =>
     LET x == stream[1]
         tree == RebuildTree(<<HuffmanNode(None, 0, 0, 0)>>, restored, 1)
     IN /\ codes = <<[key |-> x, val |-> <<0>>]>>
        /\ tree.err = ""
        /\ \A k \in 0..(Len(stream) + 1) :
             decode_huffman([i \in 1..k |-> 0], tree.nodes, 1)
               = [symbols |-> [i \in 1..k |-> x], err |-> ""]
        /\ hpc = "decoded" =>
             coeffs = [i \in 1..Min(num_coeffs, Len(stream)) |-> x]

C5_Witness ==
  /\ hpc = "decoded" /\ Cardinality(Distinct(stream)) = 1 /\ Len(stream) >= 3
  /\ codes[1].val = <<0>> /\ coeffs = stream

\* bit t (from 1, most significant bit of the first byte first) of bs
BitAt(bs, t) == (bs[((t - 1) \div 8) + 1] \div Pow(2, 7 - ((t - 1) % 8))) % 2

\* C24: the payload holds the Huffman bits MSB-first in ceil(num_bits / 8)
\* bytes, the bits after bit num_bits in the last byte are zero, and the
\* decoder walks the tree on the first num_bits bits only: the padding bits
\* give no symbol, even when more symbols are asked for.
C24_PayloadPadding ==
  /\ hpc \in {"encoded", "restored", "decoded"} =>
       \E bits \in {encode_huffman(stream, codes)} :
         /\ num_bits = Len(bits)
         /\ 8 * Len(encoded_bytes) >= num_bits
         /\ 8 * Len(encoded_bytes) < num_bits + 8
         /\ \A t \in 1..(8 * Len(encoded_bytes)) :
              BitAt(encoded_bytes, t) = IF t <= num_bits THEN bits[t] ELSE 0
         /\ bytes_to_bitstring(encoded_bytes, num_bits) = bits
  /\ hpc = "decoded" =>
       /\ Len(coeffs) <= Len(stream)
       /\ num_coeffs >= Len(stream) => coeffs = stream

C24_Witness ==
  /\ hpc = "decoded" /\ num_coeffs = Len(stream) + 1 /\ coeffs = stream
  /\ Cardinality(Distinct(stream)) = 1 /\ num_bits = 3
  /\ encoded_bytes = <<0>>

\* every merge of the build takes the two lowest frequencies of the queue:
\* nodes 1..n of the arena are the leaves, the later ones the parents in the
\* order of creation; when parent p is made, every node made before it that
\* is not yet under a parent weighs at least as much as both children of p
MergesLowest(nodes, n) ==
  \A p \in (n + 1)..Len(nodes) :
    /\ nodes[nodes[p].left].freq <= nodes[nodes[p].right].freq
    /\ \A x \in 1..(p - 1) :
         (/\ x \notin {nodes[p].left, nodes[p].right}
          /\ \A p2 \in (n + 1)..(p - 1) : x \notin {nodes[p2].left, nodes[p2].right})
         => nodes[x].freq >= nodes[nodes[p].right].freq

\* sum over the symbols of frequency times codeword length
RECURSIVE WeightedLength(_, _, _)
WeightedLength(freq, cds, i) ==
  IF i > Len(freq) THEN 0
  ELSE freq[i].val * Len(Get(cds, freq[i].key)) + WeightedLength(freq, cds, i + 1)

\* C29: build_huffman_tree always merges the two lowest-frequency nodes left
\* in the queue, so a symbol of strictly higher frequency never has a longer
\* codeword than one of strictly lower frequency, and num_bits is the sum
\* over the symbols of frequency times codeword length.
C29_HuffmanGreedy ==
  (Built /\ stream # <<>>) =>
    \E freq \in {Counter(stream)} :
      /\ \E tree \in {build_huffman_tree(freq)} : MergesLowest(tree.nodes, Len(freq))
      /\ \A a, b \in 1..Len(freq) :
           freq[a].val > freq[b].val =>
             Len(Get(codes, freq[a].key)) <= Len(Get(codes, freq[b].key))
      /\ hpc # "failed"
      /\ num_bits = WeightedLength(freq, codes, 1)

C29_Witness ==
  /\ hpc = "encoded" /\ Len(codes) = MaxSkew
  /\ \E a, b \in 1..Len(codes) : Len(codes[a].val) >= Len(codes[b].val) + 5
  /\ num_bits = WeightedLength(Counter(stream), codes, 1)

----------------------------------------------------------------------------
(* Specification and properties of the zig-zag scanner *)

ZigInit == ZInit /\ HIdle /\ FIdle /\ XIdle
ZigNext == ZigzagFlatten \/ ZigzagUnflatten
ZigSpec == ZigInit /\ [][ZigNext]_vars

\* C6: for every block size B in 2..16 zigzag_order(B) lists every position
\* of the block exactly once, so unflattening the flattened block gives the
\* block back.
C6_ZigzagBijection ==
  zpc # "idle" =>
     LET order == zigzag_order(block_size)
     IN /\ Len(order) = block_size * block_size
        /\ {order[k] : k \in 1..Len(order)} = Pos(block_size)
        /\ zpc # "failed"
        /\ zpc = "done" => unflat = block

C6_Witness ==
  /\ zpc = "done" /\ block_size = 16 /\ unflat = block
  /\ \A p, q \in Pos(block_size) : p # q => block[p] # block[q]
  /\ flattened[2] = block[<<1, 0>>] /\ flattened[3] = block[<<0, 1>>]

\* smallest and largest row index on anti-diagonal d of a B x B block
DiagLow(B, d) == Max(0, d - B + 1)
DiagHigh(B, d) == Min(d, B - 1)

\* C25: zigzag_order(B) lists the anti-diagonals d = 0..2B-2 in increasing d;
\* on a diagonal the row index i runs over [max(0, d-B+1), min(d, B-1)] with
\* j = d - i, upwards when d is even and downwards when d is odd, so the
\* order starts (0,0), (1,0), (0,1).  Stated step by step: the order starts
\* at the first position of diagonal 0, each position is followed by the next
\* one of its diagonal in the diagonal's direction or, at the end of the
\* diagonal, by the first position of the next diagonal, and it ends at the
\* end of diagonal 2B-2.
C25_ZigzagDiagonals ==
  zpc # "idle" =>
    \E order \in {zigzag_order(block_size)} :
      LET B == block_size
          First(d) == IF d % 2 = 0 THEN <<DiagLow(B, d), d - DiagLow(B, d)>>
                      ELSE <<DiagHigh(B, d), d - DiagHigh(B, d)>>
          Final(d) == IF d % 2 = 0 THEN <<DiagHigh(B, d), d - DiagHigh(B, d)>>
                     ELSE <<DiagLow(B, d), d - DiagLow(B, d)>>
          Step(p) == IF (p[1] + p[2]) % 2 = 0 THEN <<p[1] + 1, p[2] - 1>>
                     ELSE <<p[1] - 1, p[2] + 1>>
      IN  /\ Len(order) = B * B
          /\ order[1] = First(0)
          /\ order[Len(order)] = Final(2 * B - 2)
          /\ \A k \in 1..(Len(order) - 1) :
               IF order[k] = Final(order[k][1] + order[k][2])
               THEN order[k + 1] = First(order[k][1] + order[k][2] + 1)
               ELSE order[k + 1] = Step(order[k])
          /\ <<order[1], order[2], order[3]>> = << <<0, 0>>, <<1, 0>>, <<0, 1>> >>

C25_Witness ==
  /\ zpc = "flat" /\ block_size = 8
  /\ \E order \in {zigzag_order(8)} :
       /\ <<order[4], order[5], order[6]>> = << <<0, 2>>, <<1, 1>>, <<2, 0>> >>
       /\ <<order[62], order[63], order[64]>> = << <<7, 6>>, <<6, 7>>, <<7, 7>> >>

----------------------------------------------------------------------------
(* Specification and properties of the bitstream framer *)

FrameInit == FInit /\ HIdle /\ ZIdle /\ XIdle
FrameNext ==
  \/ PackBitstream
  \/ ReadFrame
  \/ \E n \in 0..(Len(frame) - 1) : ReadTruncated(n)
  \/ \E i \in 0..(Len(frame) - 1), v \in MutationBytes : ReadMutated(i, v)
  \/ UnpackBitstream
  \/ ReadInvalidFile
  \/ ValidateBitstream
  \/ ValidateMissingFile
FrameSpec == FrameInit /\ [][FrameNext]_vars

Unpacked == fpc \in {"unpacked", "rejected"}

\* C7: unpacking the frame packed from in-range fields returns the same
\* width, height, bit depth, block size, quality, quantization entries in
\* row-major order, Huffman table bytes, payload bytes and num_bits.
C7_FrameRoundTrip ==
  (Unpacked /\ data = frame) => (fpc = "unpacked" /\ params = fields)

C7_Witness ==
  /\ fpc = "unpacked" /\ data = frame /\ params = fields
  /\ fields.width = 258 /\ fields.block_size = 3 /\ fields.bit_depth = 16
  /\ Len(fields.encoded_data) >= 2

\* C8: every byte sequence whose first four bytes are not 'MEDC', or whose
\* fifth byte is not 0x01, is rejected and no parameters are returned.
C8_MagicVersionRejected ==
  (Unpacked /\ (\/ Slice(data, 0, 4) # MAGIC_NUMBER
                \/ (Len(data) >= 5 /\ data[5] # VERSION))) =>
     (fpc = "rejected" /\ params = NoParams)

C8_Witness ==
  /\ fpc = "rejected" /\ params = NoParams
  /\ Len(data) = Len(frame) /\ Slice(data, 0, 4) = MAGIC_NUMBER
  /\ data[5] = 2
  /\ \A i \in 1..Len(data) : i # 5 => data[i] = frame[i]

\* C9 as stated: every proper prefix of a valid frame is rejected, and the
\* parse offset never moves past the end of the input without an error.
C9_TruncationRejected ==
  /\ (Unpacked /\ Len(data) < Len(frame) /\ data = SubSeq(frame, 1, Len(data)))
        => fpc = "rejected"
  /\ fpc = "unpacked" => offset <= Len(data)

\* C10: a frame whose quant_len field differs from the square of its
\* block_size field is rejected, and an accepted frame carries exactly
\* block_size x block_size quantization entries.
C10_QuantLenChecked ==
  /\ (Unpacked /\ Len(data) >= 14
        /\ FromBytes(Slice(data, 12, 14)) # data[11] * data[11])
        => fpc = "rejected"
  /\ fpc = "unpacked" =>
        Len(params.quant_matrix) = params.block_size * params.block_size

C10_Witness ==
  /\ fpc = "rejected" /\ ferr = "ValueError: cannot reshape"
  /\ Len(data) = Len(frame)
  /\ FromBytes(Slice(data, 12, 14)) = 4 /\ data[11] = 1

\* validate_bitstream has finished
Validated == fpc \in {"valid", "invalid", "validate_raised"}

C23_FrameLayout ==
  fpc = "packed" =>
    LET f == fields
        ql == Len(f.quant_matrix)
        hl == Len(f.huffman_table)
        pl == Len(f.encoded_data)
        U16(p) == 256 * frame[p + 1] + frame[p + 2]
        U32(p) == 65536 * U16(p) + U16(p + 2)
    IN  /\ Len(frame) = 14 + 2 * ql + 2 + hl + 8 + pl
        /\ <<frame[1], frame[2], frame[3], frame[4]>> = <<77, 69, 68, 67>>
        /\ frame[5] = 1
        /\ U16(5) = f.width /\ U16(7) = f.height
        /\ frame[10] = f.bit_depth /\ frame[11] = f.block_size
        /\ frame[12] = f.quality
        /\ U16(12) = ql
        /\ \A k \in 1..ql : U16(14 + 2 * (k - 1)) = f.quant_matrix[k]
        /\ U16(14 + 2 * ql) = hl
        /\ \A k \in 1..hl : frame[16 + 2 * ql + k] = f.huffman_table[k]
        /\ U32(16 + 2 * ql + hl) = f.num_bits
        /\ U32(20 + 2 * ql + hl) = pl
        /\ \A k \in 1..pl : frame[24 + 2 * ql + hl + k] = f.encoded_data[k]

C23_Witness ==
  /\ fpc = "packed" /\ fields.width = 258 /\ frame[6] = 1 /\ frame[7] = 2
  /\ fields.height = 65535 /\ fields.block_size = 3
  /\ Len(fields.encoded_data) >= 2
  /\ Len(frame) = 24 + 18 + Len(fields.huffman_table) + Len(fields.encoded_data)

----------------------------------------------------------------------------
(* Specification and properties of the quantizer *)

QuantInit == QInit /\ HIdle /\ ZIdle /\ FIdle /\ PIdle /\ CIdle /\ TIdle
QuantNext == CreateQuantizationMatrix
QuantSpec == QuantInit /\ [][QuantNext]_vars

\* (base * scale * bit_scale + 50) / 100 >= k, stated without division (both
\* sides doubled and multiplied by q when scale = 5000 / q)
ScaledAtLeast(k, base, q, depth) ==
  LET bit_scale == Pow(2, depth - 8)
  IN  IF q < 50 THEN 100 * base * bit_scale + q >= 2 * q * k
      ELSE base * (200 - 2 * q) * bit_scale + 50 >= 100 * k

\* C16: for q in 1..100 and b in 8..16 every entry of
\* create_quantization_matrix(q, 8, b) is the floor of
\* (base * scale * 2^b / 256 + 50) / 100 clipped to [1, 65535], so it lies
\* in [1, 65535], and at q = 100 every entry is 1.
C16_QuantMatrixFormula ==
  (qpc = "created" /\ block_size_arg = 8) =>
    /\ Len(quant_matrix) = 8
    /\ \A i \in 1..8 : Len(quant_matrix[i]) = 8
    /\ \A i \in 1..8, j \in 1..8 :
         LET e == quant_matrix[i][j]
             base == base_matrix[i][j]
         IN  /\ e \in 1..65535
             /\ \/ e = 1 /\ ~ScaledAtLeast(2, base, quality_arg, bit_depth_arg)
                \/ e = 65535 /\ ScaledAtLeast(65535, base, quality_arg, bit_depth_arg)
                \/ /\ ScaledAtLeast(e, base, quality_arg, bit_depth_arg)
                   /\ ~ScaledAtLeast(e + 1, base, quality_arg, bit_depth_arg)
             /\ quality_arg = 100 => e = 1

C16_Witness ==
  /\ qpc = "created" /\ block_size_arg = 8 /\ quality_arg = 100
  /\ bit_depth_arg = 16 /\ quant_matrix[1][1] = 1

\* C17: for every block size B in 2..255 the derived quantization matrix has
\* exactly B x B entries.
C17_QuantMatrixIsBlockSquare ==
  qpc = "created" => Len(Flatten(quant_matrix)) = block_size_arg * block_size_arg

\* C30: the matrix is monotone in the quality: for a bit depth in 8..16 and
\* qualities q1 < q2 in 1..100 every entry of the matrix of q2 is at most the
\* entry of the matrix of q1, across the switch of the scale formula between
\* q = 49 and q = 50 as well.
C30_QuantMatrixMonotone ==
  (qpc = "created" /\ block_size_arg = 8) =>
    \A q2 \in (quality_arg + 1)..100 :
      \E m2 \in {create_quantization_matrix(q2, 8, bit_depth_arg)} :
        \A i \in 1..8, j \in 1..8 : m2[i][j] <= quant_matrix[i][j]

C30_Witness ==
  /\ qpc = "created" /\ block_size_arg = 8 /\ quality_arg = 49
  /\ bit_depth_arg = 12
  /\ quant_matrix[8][8] > create_quantization_matrix(50, 8, 12)[8][8]
  /\ create_quantization_matrix(50, 8, 12)[8][8]
       > create_quantization_matrix(51, 8, 12)[8][8]

----------------------------------------------------------------------------
(* Specification and properties of padding *)

PadInit == PInit /\ HIdle /\ ZIdle /\ FIdle /\ QIdle /\ CIdle /\ TIdle
PadNext == PadImage \/ UnpadImage
PadSpec == PadInit /\ [][PadNext]_vars

\* ceil(n / b) * b: the least multiple of b that is at least n
CeilMultiple(n, b) == CHOOSE k \in n..(n + b - 1) : k % b = 0

\* C20: pad_image returns a (ceil(H/B)*B) x (ceil(W/B)*B) array whose element
\* (i, j) is the input at (min(i, H-1), min(j, W-1)), unpad_image of it is the
\* input, and a 10 x 14 image with B = 8 gives a 16 x 16 array of 4 blocks.
C20_PadUnpad ==
  LET H == Len(image)
      W == Len(image[1])
  IN  /\ ppc \in {"padded_image", "unpadded"} =>
           /\ original_shape = <<H, W>>
           /\ Shape(padded_image) = <<CeilMultiple(H, pad_size), CeilMultiple(W, pad_size)>>
           /\ \A i \in 1..Len(padded_image) :
                /\ Len(padded_image[i]) = Len(padded_image[1])
                /\ \A j \in 1..Len(padded_image[i]) :
                     padded_image[i][j] = image[Min(i, H)][Min(j, W)]
           /\ (H = 10 /\ W = 14 /\ pad_size = 8) =>
                /\ Shape(padded_image) = <<16, 16>>
                /\ NumBlocks(H, W, pad_size) = 4
      /\ ppc = "unpadded" => unpadded = image

C20_Witness ==
  /\ ppc = "unpadded" /\ Shape(image) = <<10, 14>> /\ pad_size = 8
  /\ Shape(padded_image) = <<16, 16>> /\ padded_image[16][16] = image[10][14]
  /\ unpadded = image

----------------------------------------------------------------------------
(* Specification and properties of the encoder and decoder programs *)

CodecInit == CInit /\ HIdle /\ ZIdle /\ FIdle /\ QIdle /\ PIdle /\ TIdle
CodecNext ==
  \/ EncodeImage
  \/ EncodeMain
  \/ ReadBitstream
  \/ ReadFails
  \/ UnpackFrame
  \/ HuffmanDecode
  \/ ReconstructBlocks
  \/ InverseDct
  \/ SaveRawImage
CodecSpec == CodecInit /\ [][CodecNext]_vars

\* the decoder has run Huffman decoding (and whatever followed)
HuffmanDone == cpc \in {"huffman", "blocks", "reconstructed", "saved", "raised"}
\* the decoder got past Huffman decoding without an exception
HuffmanReturned == cpc \in {"huffman", "blocks", "reconstructed", "saved"}
NumCoeffs(f) == NumBlocks(f.height, f.width, f.block_size) * f.block_size * f.block_size

\* the walk of the declared bits through the tree rebuilt from the table of
\* an unpacked frame: where it ends, the symbols met, the exception if any
WalkEnd(f) ==
  LET des == deserialize_huffman_table(f.huffman_table)
      tree == RebuildTree(<<HuffmanNode(None, 0, 0, 0)>>, des.codes, 1)
      bits == bytes_to_bitstring(f.encoded_data, f.num_bits)
  IN  DecodeLoop(tree.nodes, 1, bits, 1, Len(bits),
                 [current |-> 1, symbols |-> <<>>, err |-> ""])
MissingEdge(f) == WalkEnd(f).err = "AttributeError"
EndsMidCodeword(f) == WalkEnd(f).err = "" /\ WalkEnd(f).current # 1

\* the arguments of the run are inside the ranges of the format
InRange ==
  /\ quality_opt \in 1..100 /\ block_size_opt \in 2..255 /\ metadata \in 8..16
\* the decoder was given the frame the encoder wrote
Intact == cpc \notin {"input", "encoded", "encode_raised", "encode_exit"}
            /\ bitstream_data = bitstream

\* C11: for an image of H rows and W columns with bit depth b in 8..16 and
\* quality 1..100 (block size 8), decoding the encoder's frame does not fail
\* and writes an image of exactly H rows and W columns whose pixels all lie
\* in [0, 2^b - 1].
C11_DecodedShapeAndRange ==
  (Intact /\ InRange /\ block_size_opt = 8) =>
    /\ cpc \notin {"exit", "raised"}
    /\ cpc = "saved" =>
         /\ Len(output_file) = Len(pixels)
         /\ \A i \in 1..Len(output_file) :
              /\ Len(output_file[i]) = Len(pixels[i])
              /\ \A j \in 1..Len(output_file[i]) :
                   /\ output_file[i][j] # {}
                   /\ output_file[i][j] \subseteq 0..(Pow(2, metadata) - 1)

C11_Witness ==
  /\ Intact /\ InRange /\ block_size_opt = 8 /\ cpc = "saved"
  /\ Shape(pixels) = <<10, 14>> /\ metadata = 16 /\ quality_opt = 100
  /\ Len(output_file) = 10 /\ Len(output_file[10]) = 14
  /\ output_file[10][1] = {0}

\* C12: the decoder goes on past Huffman decoding only with exactly
\* num_coeffs symbols; a frame whose declared bits give fewer is rejected.
C12_ShortStreamRejected ==
  HuffmanReturned => Len(coeffs_flat) = NumCoeffs(dec_params)

\* C13: no image is written from a frame whose first num_bits bits decode to
\* more symbols than num_blocks * B * B.
C13_SurplusRejected ==
  cpc = "saved" =>
    Len(WalkEnd(dec_params).symbols) <= NumCoeffs(dec_params)

\* C14: when the bits of a frame follow an edge that has no child in the
\* rebuilt tree, or the declared bits end inside a codeword, Huffman decoding
\* fails and returns no symbols.
C14_InvalidCodeRejected ==
  (HuffmanDone /\ (MissingEdge(dec_params) \/ EndsMidCodeword(dec_params))) =>
    (cpc = "raised" /\ coeffs_flat = <<>>)

\* C15: the output file is written only by the step that follows a
\* reconstruction, with no error recorded, and a run that has failed at any
\* step has written nothing.
C15_SaveOnlyAfterSuccess ==
  [][/\ output_file' # output_file =>
          (cpc = "reconstructed" /\ cpc' = "saved" /\ cerr' = "")
     /\ cpc' \in {"exit", "raised"} => output_file' = NoImage
     /\ cerr' # "" => output_file' = NoImage]_vars

C15_Witness ==
  /\ cpc = "raised" /\ cerr = "IndexError" /\ coeffs_flat # <<>>
  /\ output_file = NoImage

\* C18: an encoding with quality outside 1..100, block size outside 2..255 or
\* bit depth outside 8..16 emits no frame.
C18_ArgumentsChecked ==
  (cpc \notin {"idle", "input"} /\ ~InRange) => bitstream = <<>>

\* the image read by the encoder is all zero
ZeroImage ==
  /\ pixels # NoImage
  /\ \A i \in 1..Len(pixels) : \A j \in 1..Len(pixels[i]) : pixels[i][j] = 0

\* C21: for an all-zero image (block size 8, arguments in range; e.g. 8 x 8,
\* bit depth 16, quality 75) the symbol stream holds only the symbol 0, the
\* table has the one entry 0 with code "0", num_bits is the number of
\* coefficients, the payload has ceil(num_coeffs / 8) bytes (8 for one block)
\* and decoding the frame gives an all-zero image.
C21_ConstantImage ==
  (ZeroImage /\ InRange /\ block_size_opt = 8 /\ cpc \notin {"idle", "input"}) =>
    /\ cpc \notin {"encode_raised", "encode_exit"}
    /\ Intact => cpc \notin {"exit", "raised"}
    /\ \A blocks \in block_dct_encode(pad_image(pixels, 8)[1],
                         create_quantization_matrix(quality_opt, 8, metadata),
                         8, int16_cast) :
         \A s \in {JoinBlocks(blocks)} : \A k \in 1..Len(s) : s[k] = 0
    /\ \E r \in {unpack_bitstream(bitstream)} :
         /\ r.err = ""
         /\ \E n \in {NumCoeffs(r.params)} :
              /\ n = CeilMultiple(Len(pixels), 8) * CeilMultiple(Len(pixels[1]), 8)
              /\ deserialize_huffman_table(r.params.huffman_table).codes
                   = <<[key |-> 0, val |-> <<0>>]>>
              /\ r.params.num_bits = n
              /\ 8 * Len(r.params.encoded_data) >= n
              /\ 8 * Len(r.params.encoded_data) < n + 8
              /\ Shape(pixels) = <<8, 8>> => Len(r.params.encoded_data) = 8
    /\ (Intact /\ HuffmanReturned) =>
         coeffs_flat = [k \in 1..NumCoeffs(dec_params) |-> 0]
    /\ (Intact /\ cpc = "saved") =>
         output_file = [i \in 1..Len(pixels) |-> [j \in 1..Len(pixels[i]) |-> {0}]]

C21_Witness ==
  /\ ZeroImage /\ Shape(pixels) = <<8, 8>> /\ metadata = 16 /\ quality_opt = 75
  /\ block_size_opt = 8 /\ Intact /\ cpc = "saved"
  /\ dec_params.num_bits = 64 /\ Len(dec_params.encoded_data) = 8
  /\ output_file = [i \in 1..8 |-> [j \in 1..8 |-> {0}]]

\* C26: encoder and decoder agree on the order of the blocks.  The k-th
\* block the decoder holds (k from 0) is the quantized block of block row
\* k div (Wp/B) and block column k mod (Wp/B) of the padded image, the
\* decoder uses exactly (Hp/B) * (Wp/B) blocks, and the pixel (i, j) it
\* rebuilds comes from the block of block row i div B and block column
\* j div B; with an 8-bit image at quality 100 (all divisors 1) every pixel
\* comes back as its own value v, or v - 1 from the floating-point inverse.
C26_BlockOrder ==
  (Intact /\ InRange /\ block_size_opt = 8
     /\ cpc \in {"blocks", "reconstructed", "saved"}) =>
    LET H == Len(pixels)
        W == Len(pixels[1])
        nh == CeilMultiple(H, 8) \div 8
        nw == CeilMultiple(W, 8) \div 8
    IN  /\ Len(dct_blocks) = nh * nw
        /\ Len(coeffs_flat) = nh * nw * 64
        /\ \E q11 \in {create_quantization_matrix(quality_opt, 8, metadata)[1][1]} :
             \A r \in 0..(nh - 1), c \in 0..(nw - 1) :
               \E v \in {pixels[8 * r + 1][8 * c + 1]} :
                 dct_blocks[r * nw + c + 1][<<0, 0>>]
                   \in {AsInt16(x, int16_cast) : x \in RoundOutcomes(8 * v, q11, v = 0)}
        /\ cpc \in {"reconstructed", "saved"} =>
             \A i \in 1..H, j \in 1..W :
               reconstructed[i][j]
                 = PixelOutcomes(dct_blocks[((i - 1) \div 8) * nw + ((j - 1) \div 8) + 1],
                                 dec_params.quant_matrix, 8, Pow(2, metadata) - 1)
        /\ (cpc = "saved" /\ quality_opt = 100 /\ metadata = 8) =>
             \A i \in 1..H, j \in 1..W :
               output_file[i][j] = IF pixels[i][j] = 0 THEN {0}
                                   ELSE {pixels[i][j] - 1, pixels[i][j]}

C26_Witness ==
  /\ Intact /\ InRange /\ block_size_opt = 8 /\ cpc = "saved"
  /\ Shape(pixels) = <<10, 14>> /\ metadata = 8 /\ quality_opt = 100
  /\ Len(dct_blocks) = 4
  /\ pixels[1][9] = 1 /\ output_file[1][9] = {0, 1}
  /\ pixels[9][1] = 255 /\ output_file[9][1] = {254, 255}
  /\ output_file[10][14] = {126, 127}

\* C27: for every image with pixels in [0, 2^b - 1], b in 8..16, quality in
\* 1..100 and block size 8, every quantized coefficient round(coeff / Q[i,j])
\* lies in [-32768, 32767] before the cast to int16 (the DC coefficient of a
\* block of constant value v is 8 v; the other coefficients are 0).
C27_QuantizedFitsInt16 ==
  (InRange /\ block_size_opt = 8 /\ cpc \notin {"idle", "input"}) =>
    \E q11 \in {create_quantization_matrix(quality_opt, 8, metadata)[1][1]} :
      \A r \in 0..((CeilMultiple(Len(pixels), 8) \div 8) - 1),
         c \in 0..((CeilMultiple(Len(pixels[1]), 8) \div 8) - 1) :
        \E v \in {pixels[8 * r + 1][8 * c + 1]} :
          \A x \in RoundOutcomes(8 * v, q11, v = 0) : -32768 <= x /\ x <= 32767

----------------------------------------------------------------------------
(* Specification and properties of the table section's size *)

TableInit == TInit /\ HIdle /\ ZIdle /\ FIdle /\ QIdle /\ PIdle /\ CIdle
TableNext == SerializeTable \/ PackTable
TableSpec == TableInit /\ [][TableNext]_vars

\* C28: for a valid image and arguments encoding completes: the number of
\* table entries fits the 2-byte num_symbols field, every code length fits
\* the 1-byte code_length field (1..255) and the byte length of the
\* serialized table fits the 2-byte huff_len field, so neither
\* serialize_huffman_table nor pack_bitstream fails.
C28_EncodeCompletes ==
  (tpc \notin {"idle", "input"} /\ NumSymbols(code_lengths) <= 65536) =>
    /\ tpc \notin {"serialize_raised", "pack_raised"}
    /\ NumSymbols(code_lengths) <= 65535
    /\ \A l \in 1..Len(code_lengths) : code_lengths[l] > 0 => l \in 1..255
    /\ table_len <= 65535

====
